---- MODULE Spec2Model ----
(***************************************************************************)
(* State-machine model of openclSolverBackend (the OpenCL BiCGSTAB solver  *)
(* orchestrator of opm-simulators):                                        *)
(*   src/opm/simulators/linalg/bda/opencl/openclSolverBackend.cpp          *)
(*                                                                         *)
(* One instance, one host thread.  A top-level solve_system call is split  *)
(* into its stages (initialize, analyze_matrix, update_system,             *)
(* create_preconditioner, upload, gpu_pbicgstab), and gpu_pbicgstab into   *)
(* the steps of its loop.  Floating-point data is abstracted: the outcome  *)
(* of the tolerance test and the vector an axpy leaves in d_x are inputs   *)
(* drawn from small sets; the loop counter `it` keeps its float width.     *)
(*                                                                         *)
(* The second part models WellsManager, src/opm/core/WellsManager.cpp:     *)
(* its constructor from a deck and applyControl.                           *)
(***************************************************************************)
EXTENDS Integers, Sequences, FiniteSets, TLC

VARIABLES
    \* ---- constructor / configuration
    ctorStatus,         \* "none" | "ok" | "threw"
    ctorLog,            \* constructor steps performed, in order
    linsolver,          \* the selector string passed to the constructor
    precType,           \* "none" | "BILU0" | "CPR" | "BISAI"
    maxit,              \* BdaSolver::maxit (int)
    opencl_ilu_reorder, \* "NONE" | "LEVEL_SCHEDULING" | "GRAPH_COLORING"
    devices,            \* the device list kept by the instance
    platformID, deviceID, \* BdaSolver::platformID, deviceID
    numPlatforms,       \* ghost: platforms cl::Platform::get finds
    numDevices,         \* ghost: devices getDevices finds on the chosen platform
    context, queue,     \* "none" | "own" (made by the constructor) | one handed to setOpencl
    block_size,         \* the template parameter
    \* ---- instance (host side)
    initialized, analysis_done,
    analysisOk,         \* ghost: some analyze_matrix returned true
    N,                  \* stored vector length
    Nb, nnz, nnzb,      \* stored block rows, scalar nonzeros, block nonzeros
    matPattern,         \* the call whose rows/cols arrays mat points to (0: none)
    nAnalyze,           \* ghost: analyze_matrix invocations on this instance
    initThrew,          \* ghost: some initialize threw
    x,                  \* the array the last get_result filled
    matVals,            \* mat->nnzValues (identity of the value array)
    rmatVals,           \* rmat->nnzValues
    rb,                 \* host right-hand side handed to the upload
    toOrder, fromOrder, \* permutation pair
    wellReorder,        \* <<permutation, enabled>> given to the well contributions
    precVals,           \* ghost: values the preconditioner was last built from
    \* ---- device buffers
    d_x, d_b, d_r, d_rw, d_p, d_v, d_Avals, d_Apattern, d_toOrder,
    \* ---- the running top-level call
    pc, callNo, arg, stages, status,
    branch,             \* "first" | "later": the branch taken at line 643
    analyzeResult,      \* what analyze_matrix returned in this call ("none": not called)
    precResult,         \* what create_preconditioner returned in this call
    \* ---- gpu_pbicgstab locals and result
    it2,                \* the float loop counter `it`, in units of 0.5
    norm0zero,          \* norm_0 == 0
    ops,                \* device operations of the current pass (or of the set-up)
    passNo,             \* passes of the loop started in this solve
    nPrec, nSpmv,       \* ghost: prec->apply / spmv calls in this solve
    hit,                \* ghost: the tolerance test held in this solve
    rho, rhop, beta, alpha, omega, \* the scalars of the recurrence (which value each holds)
    res,                \* BdaResult (iterations in units of 0.5, converged)
    \* ---- callers
    tid,                \* the host thread whose call the variables above describe
    other,              \* the pc, arguments, locals and result of the other thread
    preempted,          \* ghost: a thread was descheduled inside a call
    \* ---- WellsManager (src/opm/core/WellsManager.cpp)
    wm_pc,              \* position in the constructor; "none": no instance, "done": constructed
    well_names,         \* the constructor's std::vector<std::string> well_names
    well_data,          \* the constructor's std::vector<WellData>
    wellperf_data,      \* the constructor's std::vector<std::vector<PerfData> >
    kw,                 \* the index of the loop the constructor is in (kw, i or w)
    nrec,               \* ghost: records of COMPDAT, WCONINJE, WCONPROD, WELTARG read so far
    rec,                \* the input of the step: the deck record of the loop's iteration, or
                        \* applyControl's argument
    well_collection_,   \* the leaf nodes, in well order, and their parent group
    w_,                 \* the Wells struct
    applied             \* ghost: the applyControl(exceed_info, mode) calls of the last applyControl(result)

ctorVars == <<ctorStatus, ctorLog, linsolver, precType, maxit, opencl_ilu_reorder, devices,
              platformID, deviceID, numPlatforms, numDevices, context, queue, block_size>>
\* members and ghosts beside hostVars
extVars  == <<Nb, nnz, nnzb, matPattern, nAnalyze, initThrew, x>>
hostVars == <<initialized, analysis_done, analysisOk, N, matVals, rmatVals, rb,
              toOrder, fromOrder, wellReorder, precVals>>
devVars  == <<d_x, d_b, d_r, d_rw, d_p, d_v, d_Avals, d_Apattern, d_toOrder>>
callInfo == <<callNo, arg, branch, analyzeResult, precResult>>
callVars == <<pc, stages, status, callInfo>>
scalVars == <<rho, rhop, beta, alpha, omega>>
loopVars == <<it2, norm0zero, ops, passNo, nPrec, nSpmv, hit, scalVars>>
thrVars  == <<tid, other, preempted>>
wmVars   == <<wm_pc, well_names, well_data, wellperf_data, kw, nrec, rec, well_collection_,
              w_, applied>>
\* the variables of the solver backend
solverVars == <<thrVars, ctorVars, extVars, hostVars, devVars, callVars, loopVars, res>>
vars == <<solverVars, wmVars>>

----------------------------------------------------------------------------
\* Bounds of the model.

\* largest maxit the constructor is given in Spec
MaxMaxit == 2
\* top-level solve_system calls per behaviour
MaxCalls == 2
\* length N of the vectors (Nb blocks of block_size 1)
VecLen == 3
\* identities of the matrix value arrays a caller may pass: 1..MaxValsId
MaxValsId == 2
\* passes the loop may run beyond FloatStick before the model stops following it
MaxExtraPasses == 3
\* largest N_ and nnz_ given to initialize in SpecDims
MaxDimN == 4
\* largest block_size (template parameter) and dim in SpecDims
MaxBlockSize == 2

\* `float it`: IEEE-754 binary32 has a 24-bit significand
FloatMantissaBits == 24

Val == {0, 1}
Vec == [1..VecLen -> Val]
ZeroVec == [i \in 1..VecLen |-> 0]
\* right-hand sides passed by the caller: zero, and one with unequal blocks
RhsSet == {ZeroVec, [i \in 1..VecLen |-> IF i = VecLen THEN 1 ELSE 0]}
\* vectors an axpy may leave in d_x: zero, and one with unequal blocks
XSet == {ZeroVec, [i \in 1..VecLen |-> IF i = 1 THEN 1 ELSE 0]}
\* contents of a buffer (or host array) holding the known vector v
Data(v) == [kind |-> "data", v |-> v]
\* contents of a buffer that was allocated and never written
Undef == [kind |-> "undef", v |-> ZeroVec]
\* contents left by a kernel whose floating-point result is not followed
Computed == [kind |-> "computed", v |-> ZeroVec]
\* d_Avals before any upload; mat->nnzValues before any matrix
NoVals == 0
\* toOrder / fromOrder / d_toOrder before they are set
NoPerm == <<>>

Perms == {p \in [1..VecLen -> 1..VecLen] : \A i, j \in 1..VecLen : p[i] = p[j] => i = j}
InversePerm(p) == [i \in 1..VecLen |-> CHOOSE j \in 1..VecLen : p[j] = i]
\* the permutations the preconditioner's analysis answers with: the identity and
\* a rotation (which is not its own inverse)
IdentityPerm == [i \in 1..VecLen |-> i]
RotationPerm == [i \in 1..VecLen |-> (i % VecLen) + 1]
PermSet == {IdentityPerm, RotationPerm}

Min(a, b) == IF a < b THEN a ELSE b

RECURSIVE Pow2(_)
Pow2(n) == IF n = 0 THEN 1 ELSE 2 * Pow2(n - 1)

\* the value of `it` (in halves) from which it += 0.5 no longer changes it: it = 2^23
FloatStick2 == Pow2(FloatMantissaBits)
PassCap == (FloatStick2 \div 2) + MaxExtraPasses

----------------------------------------------------------------------------
\* Constructor, openclSolverBackend.cpp:49-219.

\* selector strings tried: the three supported ones, the rejected one, and others
LinsolverSet == {"ilu0", "cpr_quasiimpes", "isai", "cpr_trueimpes", "", "ILU0"}
ReorderSet == {"NONE", "LEVEL_SCHEDULING"}
MaxitSet == (-1) .. MaxMaxit
\* OpenCL environment and the IDs asked for
PlatformCounts == 0..1
PlatformIDs == 0..1
DeviceCounts == 0..2
DeviceIDs == 0..1
\* the OpenCL call of the constructor that raises cl::Error, if any
ClFailSet == {"none", "platforms_get", "getDevices", "context", "queue", "kernels_init"}

\* faulty variant of SelectLinsolver: "cpr_trueimpes" is taken for a CPR request
\* instead of being rejected
SelectLinsolverTrueImpesAsCpr(ls) ==
    IF ls = "ilu0" THEN [throws |-> FALSE, use_cpr |-> FALSE, use_isai |-> FALSE]
    ELSE IF ls = "cpr_quasiimpes" THEN [throws |-> FALSE, use_cpr |-> TRUE, use_isai |-> FALSE]
    ELSE IF ls = "isai" THEN [throws |-> FALSE, use_cpr |-> FALSE, use_isai |-> TRUE]
    ELSE IF ls = "cpr_trueimpes" THEN [throws |-> FALSE, use_cpr |-> TRUE, use_isai |-> FALSE]
    ELSE [throws |-> TRUE, use_cpr |-> FALSE, use_isai |-> FALSE]

\* lines 52-67: the if/else-if chain over linsolver.compare(...)
SelectLinsolver(ls) ==
    IF ls = "ilu0" THEN [throws |-> FALSE, use_cpr |-> FALSE, use_isai |-> FALSE]
    ELSE IF ls = "cpr_quasiimpes" THEN [throws |-> FALSE, use_cpr |-> TRUE, use_isai |-> FALSE]
    ELSE IF ls = "isai" THEN [throws |-> FALSE, use_cpr |-> FALSE, use_isai |-> TRUE]
    ELSE IF ls = "cpr_trueimpes" THEN [throws |-> TRUE, use_cpr |-> FALSE, use_isai |-> FALSE]
    ELSE [throws |-> TRUE, use_cpr |-> FALSE, use_isai |-> FALSE]

\* faulty variant of CreatePrec: the use_isai branch is missing
CreatePrecWithoutIsai(sel) ==
    IF sel.use_cpr THEN "CPR"
    ELSE "BILU0"

\* lines 69-76: Preconditioner<block_size>::create(type, ...)
CreatePrec(sel) ==
    IF sel.use_cpr THEN "CPR"
    ELSE IF sel.use_isai THEN "BISAI"
    ELSE "BILU0"

\* faulty variant of OpenclSetup: the test of deviceID at line 183 is missing
OpenclSetupWithoutDeviceIdTest(np, pid, nd, did, cf) ==
    IF cf = "platforms_get" THEN [threw |-> TRUE, log |-> <<>>, devices |-> <<>>]
    ELSE IF np = 0 \/ np <= pid
        THEN [threw |-> TRUE, log |-> <<"platforms_get">>, devices |-> <<>>]
    ELSE IF cf = "getDevices"
        THEN [threw |-> TRUE, log |-> <<"platforms_get">>, devices |-> <<>>]
    ELSE IF nd = 0
        THEN [threw |-> TRUE, log |-> <<"platforms_get", "getDevices">>,
              devices |-> [i \in 1..nd |-> i - 1]]
    ELSE IF cf = "context"
        THEN [threw |-> TRUE, log |-> <<"platforms_get", "getDevices", "devices_resize">>,
              devices |-> <<did>>]
    ELSE IF cf = "queue"
        THEN [threw |-> TRUE,
              log |-> <<"platforms_get", "getDevices", "devices_resize", "context">>,
              devices |-> <<did>>]
    ELSE IF cf = "kernels_init"
        THEN [threw |-> TRUE,
              log |-> <<"platforms_get", "getDevices", "devices_resize", "context", "queue">>,
              devices |-> <<did>>]
    ELSE [threw |-> FALSE,
          log |-> <<"platforms_get", "getDevices", "devices_resize", "context", "queue",
                    "kernels_init">>,
          devices |-> <<did>>]

\* faulty variant of OpenclSetup: devices[deviceID] is not moved to the front
\* (lines 198-201) before the list is cut to one entry
OpenclSetupKeepingFirstDevice(np, pid, nd, did, cf) ==
    IF cf = "platforms_get" THEN [threw |-> TRUE, log |-> <<>>, devices |-> <<>>]
    ELSE IF np = 0 \/ np <= pid
        THEN [threw |-> TRUE, log |-> <<"platforms_get">>, devices |-> <<>>]
    ELSE IF cf = "getDevices"
        THEN [threw |-> TRUE, log |-> <<"platforms_get">>, devices |-> <<>>]
    ELSE IF nd = 0 \/ nd <= did
        THEN [threw |-> TRUE, log |-> <<"platforms_get", "getDevices">>,
              devices |-> [i \in 1..nd |-> i - 1]]
    ELSE IF cf = "context"
        THEN [threw |-> TRUE, log |-> <<"platforms_get", "getDevices", "devices_resize">>,
              devices |-> <<0>>]
    ELSE IF cf = "queue"
        THEN [threw |-> TRUE,
              log |-> <<"platforms_get", "getDevices", "devices_resize", "context">>,
              devices |-> <<0>>]
    ELSE IF cf = "kernels_init"
        THEN [threw |-> TRUE,
              log |-> <<"platforms_get", "getDevices", "devices_resize", "context", "queue">>,
              devices |-> <<0>>]
    ELSE [threw |-> FALSE,
          log |-> <<"platforms_get", "getDevices", "devices_resize", "context", "queue",
                    "kernels_init">>,
          devices |-> <<0>>]

\* lines 78-218: the OpenCL part of the constructor, as the list of steps performed
\* before it returns or throws.  np, nd: platforms found, devices found on the
\* chosen platform; pid, did: platformID, deviceID; cf: the call raising cl::Error.
OpenclSetup(np, pid, nd, did, cf) ==
    IF cf = "platforms_get" THEN [threw |-> TRUE, log |-> <<>>, devices |-> <<>>]
    ELSE IF np = 0 \/ np <= pid
        THEN [threw |-> TRUE, log |-> <<"platforms_get">>, devices |-> <<>>]
    ELSE IF cf = "getDevices"
        THEN [threw |-> TRUE, log |-> <<"platforms_get">>, devices |-> <<>>]
    ELSE IF nd = 0 \/ nd <= did
        THEN [threw |-> TRUE, log |-> <<"platforms_get", "getDevices">>,
              devices |-> [i \in 1..nd |-> i - 1]]
    ELSE IF cf = "context"
        THEN [threw |-> TRUE, log |-> <<"platforms_get", "getDevices", "devices_resize">>,
              devices |-> <<did>>]
    ELSE IF cf = "queue"
        THEN [threw |-> TRUE,
              log |-> <<"platforms_get", "getDevices", "devices_resize", "context">>,
              devices |-> <<did>>]
    ELSE IF cf = "kernels_init"
        THEN [threw |-> TRUE,
              log |-> <<"platforms_get", "getDevices", "devices_resize", "context", "queue">>,
              devices |-> <<did>>]
    ELSE [threw |-> FALSE,
          log |-> <<"platforms_get", "getDevices", "devices_resize", "context", "queue",
                    "kernels_init">>,
          devices |-> <<did>>]

\* the constructor step named step was performed
Made(log, step) == \E i \in 1..Len(log) : log[i] = step

\* lines 50-219: what the constructor leaves behind
CtorResult(ls, np, pid, nd, did, cf) ==
    LET sel == SelectLinsolver(ls)
        ocl == OpenclSetup(np, pid, nd, did, cf)
    IN  IF sel.throws
        THEN [status |-> "threw", log |-> <<>>, precType |-> "none", devices |-> <<>>,
              context |-> "none", queue |-> "none"]
        ELSE [status |-> IF ocl.threw THEN "threw" ELSE "ok",
              log |-> <<"prec_create">> \o ocl.log,
              precType |-> CreatePrec(sel),
              devices |-> ocl.devices,
              context |-> IF Made(ocl.log, "context") THEN "own" ELSE "none",
              queue |-> IF Made(ocl.log, "queue") THEN "own" ELSE "none"]

\* the constructor as a whole
Construct(ls, mi, ro, np, pid, nd, did, cf) ==
    /\ ctorStatus = "none"
    /\ linsolver' = ls
    /\ maxit' = mi
    /\ opencl_ilu_reorder' = ro
    /\ platformID' = pid
    /\ deviceID' = did
    /\ numPlatforms' = np
    /\ numDevices' = nd
    /\ LET r == CtorResult(ls, np, pid, nd, did, cf)
       IN  /\ ctorStatus' = r.status
           /\ ctorLog' = r.log
           /\ precType' = r.precType
           /\ devices' = r.devices
           /\ context' = r.context
           /\ queue' = r.queue
    /\ UNCHANGED block_size
    /\ UNCHANGED <<wmVars, thrVars, extVars, hostVars, devVars, callVars, loopVars, res>>

----------------------------------------------------------------------------
\* State before the constructor runs.  Buffers are not allocated; the members
\* initialized / analysis_done start false (BdaSolver).

NoRes == [iterations2 |-> 0, converged |-> FALSE, set |-> FALSE]

\* the arguments of a top-level solve_system call
Arg(vals, b, nw, N_, nnz_, dim) ==
    [vals |-> vals, b |-> b, numWells |-> nw, N_ |-> N_, nnz_ |-> nnz_, dim |-> dim]
NoArg == Arg(NoVals, ZeroVec, 0, 0, 0, 1)

\* what a scalar local of gpu_pbicgstab (line 245) holds: nothing yet, the literal
\* 1.0 of lines 258-260, or the value computed in pass k of the loop
Uninit == [kind |-> "uninit", pass |-> 0]
One == [kind |-> "one", pass |-> 0]
ComputedIn(k) == [kind |-> "computed", pass |-> k]

\* the pc, arguments, locals and result of a thread that has made no call
IdleThread ==
    [pc |-> "idle", callNo |-> 0, arg |-> NoArg, stages |-> <<>>, status |-> "none",
     branch |-> "first", analyzeResult |-> "none", precResult |-> "none",
     it2 |-> 0, norm0zero |-> FALSE, ops |-> <<>>, passNo |-> 0,
     nPrec |-> 0, nSpmv |-> 0, hit |-> FALSE,
     rho |-> Uninit, rhop |-> Uninit, beta |-> Uninit, alpha |-> Uninit, omega |-> Uninit,
     res |-> NoRes]

\* a deck record, a leaf node, a well of the Wells struct, that is not there
NoRec == [kw |-> "none"]
NoGroup == [procedure_ |-> "none"]
\* w_(0), lines 177 and 187
NullWells == [null |-> TRUE, wells |-> <<>>]
NotApplied == [calls |-> <<>>, pastEnd |-> FALSE, outcome |-> "none"]

\* no WellsManager has been constructed
NoWellsManager ==
    /\ wm_pc = "none" /\ well_names = <<>> /\ well_data = <<>> /\ wellperf_data = <<>>
    /\ kw = 0 /\ nrec = 0 /\ rec = NoRec
    /\ well_collection_ = [leaves |-> <<>>, group |-> NoGroup]
    /\ w_ = NullWells /\ applied = NotApplied

\* the members before any solve_system call
InitMembers ==
    /\ NoWellsManager
    /\ initialized = FALSE /\ analysis_done = FALSE /\ analysisOk = FALSE
    /\ N = 0 /\ matVals = NoVals /\ rmatVals = NoVals /\ rb = Undef
    /\ Nb = 0 /\ nnz = 0 /\ nnzb = 0 /\ matPattern = 0
    /\ nAnalyze = 0 /\ initThrew = FALSE /\ x = Undef
    /\ toOrder = NoPerm /\ fromOrder = NoPerm /\ wellReorder = <<NoPerm, FALSE>>
    /\ precVals = NoVals
    /\ d_x = Undef /\ d_b = Undef /\ d_r = Undef /\ d_rw = Undef /\ d_p = Undef
    /\ d_v = Undef /\ d_Avals = NoVals /\ d_Apattern = "undef" /\ d_toOrder = NoPerm
    /\ pc = "idle" /\ callNo = 0 /\ arg = NoArg
    /\ stages = <<>> /\ status = "none"
    /\ branch = "first" /\ analyzeResult = "none" /\ precResult = "none"
    /\ it2 = 0 /\ norm0zero = FALSE /\ ops = <<>> /\ passNo = 0
    /\ nPrec = 0 /\ nSpmv = 0 /\ hit = FALSE
    /\ rho = Uninit /\ rhop = Uninit /\ beta = Uninit /\ alpha = Uninit /\ omega = Uninit
    /\ res = NoRes
    /\ tid = 1 /\ other = IdleThread /\ preempted = FALSE

\* before the constructor runs
InitCtor ==
    /\ ctorStatus = "none" /\ ctorLog = <<>> /\ linsolver = "" /\ precType = "none"
    /\ maxit = 0 /\ opencl_ilu_reorder = "NONE" /\ devices = <<>>
    /\ platformID = 0 /\ deviceID = 0 /\ numPlatforms = 0 /\ numDevices = 0
    /\ context = "none" /\ queue = "none" /\ block_size = 1
    /\ InitMembers

\* the constructor's members after a successful construction with "ilu0" on
\* device did of the nd devices of platform 0
ConstructedOn(mi, ro, bs, nd, did) ==
    LET r == CtorResult("ilu0", 1, 0, nd, did, "none")
    IN  /\ r.status = "ok"
        /\ ctorStatus = r.status /\ ctorLog = r.log /\ linsolver = "ilu0"
        /\ precType = r.precType /\ devices = r.devices
        /\ platformID = 0 /\ deviceID = did /\ numPlatforms = 1 /\ numDevices = nd
        /\ context = r.context /\ queue = r.queue
        /\ maxit = mi /\ opencl_ilu_reorder = ro /\ block_size = bs

\* the same on platform 0, device 0 of one platform with one device
Constructed(mi, ro, bs) == ConstructedOn(mi, ro, bs, 1, 0)

\* after a successful construction, for each maxit and reorder strategy (the
\* selector, platform and device do not enter the solve)
Init ==
    /\ \E mi \in MaxitSet, ro \in ReorderSet : Constructed(mi, ro, 1)
    /\ InitMembers

----------------------------------------------------------------------------
\* The top-level solve_system(N, nnz, dim, vals, rows, cols, b, wells, res),
\* openclSolverBackend.cpp:641-664, one action per stage.

ST_SUCCESS == "BDA_SOLVER_SUCCESS"
ST_ANALYSIS_FAILED == "BDA_SOLVER_ANALYSIS_FAILED"
ST_PRECOND_FAILED == "BDA_SOLVER_CREATE_PRECONDITIONER_FAILED"
\* an exception left the call: std::logic_error, or a cl::Error nobody converted
ST_LOGIC_ERROR == "threw std::logic_error"
ST_CL_ERROR == "threw cl::Error"

Reordering == opencl_ilu_reorder # "NONE"

\* reorderBlockedVectorByPattern (Reorder.hpp), block_size 1: to[i] = from[order[i]]
ReorderBlockedVectorByPattern(v, order) == [i \in 1..VecLen |-> v[order[i]]]

\* rmat->nnzValues: rmat is mat itself without reordering (line 534), the
\* preconditioner's reordered matrix otherwise (line 541)
RmatNnzValues == IF Reordering THEN rmatVals ELSE matVals

Return(st) == /\ status' = st
              /\ pc' = "idle"

\* faulty variant of Call: the test of `initialized` at line 643 is missing and
\* every call initializes
CallAlwaysInitializing(vals, b, nw, N_, nnz_, dim) ==
    /\ ctorStatus = "ok"
    /\ pc = "idle"
    /\ callNo < MaxCalls
    /\ callNo' = callNo + 1
    /\ arg' = Arg(vals, b, nw, N_, nnz_, dim)
    /\ x' = Undef
    /\ stages' = <<>>
    /\ status' = "running"
    /\ branch' = "first"
    /\ pc' = "initialize"
    /\ analyzeResult' = "none"
    /\ precResult' = "none"
    /\ it2' = 0 /\ norm0zero' = FALSE /\ ops' = <<>> /\ passNo' = 0
    /\ nPrec' = 0 /\ nSpmv' = 0 /\ hit' = FALSE
    /\ rho' = Uninit /\ rhop' = Uninit /\ beta' = Uninit /\ alpha' = Uninit /\ omega' = Uninit
    /\ UNCHANGED <<wmVars, thrVars, ctorVars, Nb, nnz, nnzb, matPattern, nAnalyze, initThrew,
                   hostVars, devVars, res>>

\* line 642: the call is made; line 643 chooses the branch
Call(vals, b, nw, N_, nnz_, dim) ==
    /\ ctorStatus = "ok"
    /\ pc = "idle"
    /\ callNo < MaxCalls
    /\ callNo' = callNo + 1
    /\ arg' = Arg(vals, b, nw, N_, nnz_, dim)
    \* the caller has no result of this call yet
    /\ x' = Undef
    /\ stages' = <<>>
    /\ status' = "running"
    /\ branch' = IF initialized = FALSE THEN "first" ELSE "later"
    /\ pc' = IF initialized = FALSE THEN "initialize" ELSE "update_system"
    /\ analyzeResult' = "none"
    /\ precResult' = "none"
    \* the locals of the previous gpu_pbicgstab are gone
    /\ it2' = 0 /\ norm0zero' = FALSE /\ ops' = <<>> /\ passNo' = 0
    /\ nPrec' = 0 /\ nSpmv' = 0 /\ hit' = FALSE
    /\ rho' = Uninit /\ rhop' = Uninit /\ beta' = Uninit /\ alpha' = Uninit /\ omega' = Uninit
    /\ UNCHANGED <<wmVars, thrVars, ctorVars, Nb, nnz, nnzb, matPattern, nAnalyze, initThrew,
                   hostVars, devVars, res>>

\* line 389: nnzb = nnz_ / block_size / block_size (int division)
StoredNnzb(nnz_, bs) == (nnz_ \div bs) \div bs

\* line 391: Nb = (N + dim - 1) / dim (int division)
StoredNb(N_, dim) == (N_ + dim - 1) \div dim

\* faulty variant of Initialize: the test of analysis_done at line 645 is inverted
InitializeAnalysisTestInverted(allocFails) ==
    /\ pc = "initialize"
    /\ N' = arg.N_
    /\ nnz' = arg.nnz_
    /\ nnzb' = StoredNnzb(arg.nnz_, block_size)
    /\ Nb' = StoredNb(arg.N_, arg.dim)
    \* line 406: mat keeps the pointers vals, cols, rows of this call
    /\ matVals' = arg.vals
    /\ matPattern' = callNo
    /\ initThrew' = (initThrew \/ allocFails)
    /\ stages' = Append(stages, "initialize")
    /\ IF allocFails
       THEN /\ Return(ST_LOGIC_ERROR)
            /\ UNCHANGED <<initialized, rb>>
       ELSE /\ initialized' = TRUE
            /\ rb' = IF Reordering THEN Undef ELSE rb
            /\ status' = status
            /\ pc' = IF analysis_done = TRUE THEN "analyze_matrix" ELSE "update_system"
    /\ UNCHANGED <<wmVars, thrVars, ctorVars, nAnalyze, x, analysis_done, analysisOk, rmatVals, toOrder,
                   fromOrder, wellReorder, precVals, devVars, callInfo, loopVars, res>>

\* faulty variant of Initialize: `initialized = true` is set before the buffers
\* are allocated, so it is also set when the allocation throws
InitializeFlagSetBeforeAllocation(allocFails) ==
    /\ pc = "initialize"
    /\ N' = arg.N_
    /\ nnz' = arg.nnz_
    /\ nnzb' = StoredNnzb(arg.nnz_, block_size)
    /\ Nb' = StoredNb(arg.N_, arg.dim)
    \* line 406: mat keeps the pointers vals, cols, rows of this call
    /\ matVals' = arg.vals
    /\ matPattern' = callNo
    /\ initThrew' = (initThrew \/ allocFails)
    /\ stages' = Append(stages, "initialize")
    /\ IF allocFails
       THEN /\ Return(ST_LOGIC_ERROR)
            /\ initialized' = TRUE
            /\ UNCHANGED rb
       ELSE /\ initialized' = TRUE
            /\ rb' = IF Reordering THEN Undef ELSE rb
            /\ status' = status
            /\ pc' = IF analysis_done = FALSE THEN "analyze_matrix" ELSE "update_system"
    /\ UNCHANGED <<wmVars, thrVars, ctorVars, nAnalyze, x, analysis_done, analysisOk, rmatVals, toOrder,
                   fromOrder, wellReorder, precVals, devVars, callInfo, loopVars, res>>

\* lines 385-442.  allocFails: a cl::Buffer constructor raises cl::Error, which is
\* rethrown as std::logic_error; `initialized = true` (line 441) is then not reached.
\* The buffers are allocated, not written: their contents stay undefined.
Initialize(allocFails) ==
    /\ pc = "initialize"
    /\ N' = arg.N_
    /\ nnz' = arg.nnz_
    /\ nnzb' = StoredNnzb(arg.nnz_, block_size)
    /\ Nb' = StoredNb(arg.N_, arg.dim)
    \* line 406: mat keeps the pointers vals, cols, rows of this call
    /\ matVals' = arg.vals
    /\ matPattern' = callNo
    /\ initThrew' = (initThrew \/ allocFails)
    /\ stages' = Append(stages, "initialize")
    /\ IF allocFails
       THEN /\ Return(ST_LOGIC_ERROR)
            /\ UNCHANGED <<initialized, rb>>
       ELSE /\ initialized' = TRUE
            /\ rb' = IF Reordering THEN Undef ELSE rb
            /\ status' = status
            /\ pc' = IF analysis_done = FALSE THEN "analyze_matrix" ELSE "update_system"
    /\ UNCHANGED <<wmVars, thrVars, ctorVars, nAnalyze, x, analysis_done, analysisOk, rmatVals, toOrder,
                   fromOrder, wellReorder, precVals, devVars, callInfo, loopVars, res>>

\* lines 526-554.  success and the permutation are the preconditioner's answer.
\* analysis_done is set whatever the answer (line 551).
AnalyzeMatrix(success, perm) ==
    /\ pc = "analyze_matrix"
    /\ stages' = Append(stages, "analyze_matrix")
    /\ IF Reordering
       THEN /\ toOrder' = perm
            /\ fromOrder' = InversePerm(perm)
       ELSE UNCHANGED <<toOrder, fromOrder>>
    /\ analysis_done' = TRUE
    /\ nAnalyze' = nAnalyze + 1
    /\ analysisOk' = (analysisOk \/ success)
    /\ analyzeResult' = IF success THEN "true" ELSE "false"
    /\ IF success
       THEN /\ pc' = "update_system"
            /\ status' = status
       ELSE Return(ST_ANALYSIS_FAILED)
    /\ UNCHANGED <<wmVars, thrVars, ctorVars, Nb, nnz, nnzb, matPattern, initThrew, x,
                   initialized, N, matVals, rmatVals, rb, wellReorder, precVals,
                   devVars, callNo, arg, branch, precResult, loopVars, res>>

\* faulty variant of UpdateSystem: mat->nnzValues is left pointing at the values
\* given to initialize
UpdateSystemKeepingValues ==
    /\ pc = "update_system"
    /\ stages' = Append(stages, "update_system")
    /\ matVals' = matVals
    /\ IF Reordering
       THEN /\ rb' = IF fromOrder = NoPerm THEN Undef
                     ELSE Data(ReorderBlockedVectorByPattern(arg.b, fromOrder))
            /\ wellReorder' = <<toOrder, TRUE>>
       ELSE /\ rb' = Data(arg.b)
            /\ wellReorder' = <<NoPerm, FALSE>>
    /\ pc' = "create_preconditioner"
    /\ UNCHANGED <<wmVars, thrVars, ctorVars, extVars, initialized, analysis_done, analysisOk, N, rmatVals, toOrder,
                   fromOrder, precVals, devVars, callInfo, status, loopVars, res>>

\* faulty variant of UpdateSystem: the right-hand side is also written to the device
UpdateSystemWritingDevice ==
    /\ pc = "update_system"
    /\ stages' = Append(stages, "update_system")
    /\ matVals' = arg.vals
    /\ IF Reordering
       THEN /\ rb' = IF fromOrder = NoPerm THEN Undef
                     ELSE Data(ReorderBlockedVectorByPattern(arg.b, fromOrder))
            /\ wellReorder' = <<toOrder, TRUE>>
       ELSE /\ rb' = Data(arg.b)
            /\ wellReorder' = <<NoPerm, FALSE>>
    /\ d_b' = Data(arg.b)
    /\ pc' = "create_preconditioner"
    /\ UNCHANGED <<wmVars, thrVars, ctorVars, extVars, initialized, analysis_done, analysisOk, N, rmatVals, toOrder,
                   fromOrder, precVals, d_x, d_r, d_rw, d_p, d_v, d_Avals, d_Apattern,
                   d_toOrder, callInfo, status, loopVars, res>>

\* faulty variant of UpdateSystem: the well contributions are told to reorder
\* by toOrder whatever the reorder strategy
UpdateSystemWellsAlwaysReordered ==
    /\ pc = "update_system"
    /\ stages' = Append(stages, "update_system")
    /\ matVals' = arg.vals
    /\ IF Reordering
       THEN /\ rb' = IF fromOrder = NoPerm THEN Undef
                     ELSE Data(ReorderBlockedVectorByPattern(arg.b, fromOrder))
            /\ wellReorder' = <<toOrder, TRUE>>
       ELSE /\ rb' = Data(arg.b)
            /\ wellReorder' = <<toOrder, TRUE>>
    /\ pc' = "create_preconditioner"
    /\ UNCHANGED <<wmVars, thrVars, ctorVars, extVars, initialized, analysis_done, analysisOk, N, rmatVals, toOrder,
                   fromOrder, precVals, devVars, callInfo, status, loopVars, res>>

\* lines 557-575
UpdateSystem ==
    /\ pc = "update_system"
    /\ stages' = Append(stages, "update_system")
    /\ matVals' = arg.vals
    /\ IF Reordering
       THEN /\ rb' = IF fromOrder = NoPerm THEN Undef
                     ELSE Data(ReorderBlockedVectorByPattern(arg.b, fromOrder))
            /\ wellReorder' = <<toOrder, TRUE>>
       ELSE /\ rb' = Data(arg.b)
            /\ wellReorder' = <<NoPerm, FALSE>>
    /\ pc' = "create_preconditioner"
    /\ UNCHANGED <<wmVars, thrVars, ctorVars, extVars, initialized, analysis_done, analysisOk, N, rmatVals, toOrder,
                   fromOrder, precVals, devVars, callInfo, status, loopVars, res>>

\* the upload stage of the branch taken at line 643
UploadStage == IF branch = "first" THEN "copy_system_to_gpu" ELSE "update_system_on_gpu"

\* faulty variant of CreatePreconditioner: the caller does not test the result
CreatePreconditionerResultIgnored(result) ==
    /\ pc = "create_preconditioner"
    /\ stages' = Append(stages, "create_preconditioner")
    /\ precVals' = matVals
    /\ rmatVals' = IF Reordering THEN matVals ELSE rmatVals
    /\ precResult' = IF result THEN "true" ELSE "false"
    /\ pc' = UploadStage
    /\ status' = status
    /\ UNCHANGED <<wmVars, thrVars, ctorVars, extVars, initialized, analysis_done, analysisOk, N, matVals, rb, toOrder,
                   fromOrder, wellReorder, devVars, callNo, arg, branch, analyzeResult,
                   loopVars, res>>

\* lines 578-590 and the tests at lines 651, 657.  result is the preconditioner's
\* answer; with reordering the preconditioner refills its reordered matrix from mat.
CreatePreconditioner(result) ==
    /\ pc = "create_preconditioner"
    /\ stages' = Append(stages, "create_preconditioner")
    /\ precVals' = matVals
    /\ rmatVals' = IF Reordering THEN matVals ELSE rmatVals
    /\ precResult' = IF result THEN "true" ELSE "false"
    /\ IF result
       THEN /\ pc' = UploadStage
            /\ status' = status
       ELSE Return(ST_PRECOND_FAILED)
    /\ UNCHANGED <<wmVars, thrVars, ctorVars, extVars, initialized, analysis_done, analysisOk, N, matVals, rb, toOrder,
                   fromOrder, wellReorder, devVars, callNo, arg, branch, analyzeResult,
                   loopVars, res>>

\* the k-th enqueue of an upload takes effect unless an earlier one (or it) failed:
\* the failing enqueue raises cl::Error and the rest is not issued
Written(k, failAt, new, old) == IF failAt = 0 \/ k < failAt THEN new ELSE old

\* lines 452-489.  failAt: the enqueue that fails (0: none).  No handler converts
\* the cl::Error here: the call is outside the try block of lines 598-609.
CopySystemToGpu(failAt) ==
    /\ pc = "copy_system_to_gpu"
    /\ failAt \in 0 .. (IF Reordering THEN 6 ELSE 5)
    /\ stages' = Append(stages, "copy_system_to_gpu")
    /\ d_Avals' = Written(1, failAt, RmatNnzValues, d_Avals)
    /\ d_Apattern' = Written(3, failAt, "pattern",
                        Written(2, failAt, "cols_only", d_Apattern))
    /\ d_b' = Written(4, failAt, rb, d_b)
    /\ d_x' = Written(5, failAt, Data(ZeroVec), d_x)
    /\ d_toOrder' = IF Reordering THEN Written(6, failAt, toOrder, d_toOrder) ELSE d_toOrder
    /\ IF failAt = 0
       THEN /\ pc' = "gpu_pbicgstab"
            /\ status' = status
       ELSE Return(ST_CL_ERROR)
    /\ UNCHANGED <<wmVars, thrVars, ctorVars, extVars, hostVars, d_r, d_rw, d_p, d_v, callInfo, loopVars, res>>

\* faulty variant of UpdateSystemOnGpu: d_x is not cleared
UpdateSystemOnGpuWithoutFill(failAt) ==
    /\ pc = "update_system_on_gpu"
    /\ failAt \in 0..2
    /\ stages' = Append(stages, "update_system_on_gpu")
    /\ d_Avals' = Written(1, failAt, RmatNnzValues, d_Avals)
    /\ d_b' = Written(2, failAt, rb, d_b)
    /\ IF failAt = 0
       THEN /\ pc' = "gpu_pbicgstab"
            /\ status' = status
       ELSE Return(ST_CL_ERROR)
    /\ UNCHANGED <<wmVars, thrVars, ctorVars, extVars, hostVars, d_x, d_r, d_rw, d_p, d_v, d_Apattern, d_toOrder,
                   callInfo, loopVars, res>>

\* faulty variant of UpdateSystemOnGpu: the pattern and the permutation are
\* uploaded again, as in copy_system_to_gpu
UpdateSystemOnGpuWritingPattern(failAt) ==
    /\ pc = "update_system_on_gpu"
    /\ failAt \in 0..3
    /\ stages' = Append(stages, "update_system_on_gpu")
    /\ d_Avals' = Written(1, failAt, RmatNnzValues, d_Avals)
    /\ d_b' = Written(2, failAt, rb, d_b)
    /\ d_x' = Written(3, failAt, Data(ZeroVec), d_x)
    /\ d_Apattern' = IF failAt = 0 THEN "pattern" ELSE d_Apattern
    /\ d_toOrder' = IF failAt = 0 /\ Reordering THEN toOrder ELSE d_toOrder
    /\ IF failAt = 0
       THEN /\ pc' = "gpu_pbicgstab"
            /\ status' = status
       ELSE Return(ST_CL_ERROR)
    /\ UNCHANGED <<wmVars, thrVars, ctorVars, extVars, hostVars, d_r, d_rw, d_p, d_v,
                   callInfo, loopVars, res>>

\* lines 491-523: values, right-hand side and the zero fill of x only
UpdateSystemOnGpu(failAt) ==
    /\ pc = "update_system_on_gpu"
    /\ failAt \in 0..3
    /\ stages' = Append(stages, "update_system_on_gpu")
    /\ d_Avals' = Written(1, failAt, RmatNnzValues, d_Avals)
    /\ d_b' = Written(2, failAt, rb, d_b)
    /\ d_x' = Written(3, failAt, Data(ZeroVec), d_x)
    /\ IF failAt = 0
       THEN /\ pc' = "gpu_pbicgstab"
            /\ status' = status
       ELSE Return(ST_CL_ERROR)
    /\ UNCHANGED <<wmVars, thrVars, ctorVars, extVars, hostVars, d_r, d_rw, d_p, d_v, d_Apattern, d_toOrder,
                   callInfo, loopVars, res>>

----------------------------------------------------------------------------
\* gpu_pbicgstab, openclSolverBackend.cpp:242-382.

\* `float it; it += 0.5`: the sum is formed in double and rounded to binary32
\* (round to nearest, ties to even).  h is `it` in units of 0.5.  Up to 2^23 every
\* multiple of 0.5 is a float; from 2^23 on the floats are 1 apart (up to 2^24),
\* so it + 0.5 is a tie and goes to the neighbour with the even significand.
FloatAddHalf(h) ==
    IF h + 1 <= FloatStick2 THEN h + 1
    ELSE IF h < 2 * FloatStick2 THEN (IF (h \div 2) % 2 = 0 THEN h ELSE h + 2)
    ELSE h

\* line 283, `it < maxit`: maxit is converted to float (exact below 2^24)
LoopCondition(h, mi) == h < 2 * mi

\* faulty variant of NotFirstPass: `it > 0`, which also holds in the first pass
NotFirstPassFromStart(h) == h > 0

\* line 287, `it > 1`
NotFirstPass(h) == h > 2

\* line 361, std::min(it, (float)maxit), in units of 0.5
ResIterations2(h, mi) == Min(h, 2 * mi)

\* line 365, `it != (maxit + 0.5)`
ResConverged(h, mi) == h # 2 * mi + 1

Op(name, src, dst) == [op |-> name, src |-> src, dst |-> dst]

\* faulty variant of BicgInit: the queue does not keep the submission order; the
\* copy r -> rw runs before the copy b -> r, and the fill of p after the copy r -> p
BicgInitOutOfOrder(failAt) ==
    /\ pc = "gpu_pbicgstab"
    /\ failAt \in 0..5
    /\ stages' = Append(stages, "gpu_pbicgstab")
    /\ d_v' = Written(2, failAt, Data(ZeroVec), d_v)
    /\ d_r' = Written(3, failAt, d_b, d_r)
    /\ d_rw' = Written(4, failAt, d_r, d_rw)
    /\ d_p' = Written(1, failAt, Data(ZeroVec), Written(5, failAt, d_b, d_p))
    /\ hit' = FALSE
    /\ passNo' = 0
    /\ nPrec' = 0
    /\ nSpmv' = 0
    /\ IF failAt = 0
       THEN /\ ops' = << Op("fill", <<>>, "d_p"), Op("fill", <<>>, "d_v"),
                         Op("copy", <<"d_b">>, "d_r"), Op("copy", <<"d_r">>, "d_rw"),
                         Op("copy", <<"d_r">>, "d_p"), Op("norm", <<"d_r">>, "d_tmp") >>
            /\ norm0zero' = (d_b = Data(ZeroVec))
            /\ it2' = 1
            /\ rho' = One /\ alpha' = One /\ omega' = One
            /\ UNCHANGED <<rhop, beta>>
            /\ pc' = "for_cond"
            /\ status' = status
       ELSE /\ ops' = <<>>
            /\ UNCHANGED <<norm0zero, it2, scalVars>>
            /\ Return(ST_LOGIC_ERROR)
    /\ UNCHANGED <<wmVars, thrVars, ctorVars, extVars, hostVars, d_x, d_b, d_Avals, d_Apattern, d_toOrder,
                   callInfo, res>>

\* lines 254-274: the five fills/copies, the wait, and norm_0.  The queue is in
\* order (line 205 asks for no out-of-order execution): each operation sees the
\* effect of the ones submitted before it.  failAt: the enqueue
\* that raises cl::Error (0: none); lines 600-605 turn it into std::logic_error.
BicgInit(failAt) ==
    /\ pc = "gpu_pbicgstab"
    /\ failAt \in 0..5
    /\ stages' = Append(stages, "gpu_pbicgstab")
    /\ d_v' = Written(2, failAt, Data(ZeroVec), d_v)
    /\ d_r' = Written(3, failAt, d_b, d_r)
    /\ d_rw' = Written(4, failAt, d_b, d_rw)
    /\ d_p' = Written(5, failAt, d_b, Written(1, failAt, Data(ZeroVec), d_p))
    /\ hit' = FALSE
    /\ passNo' = 0
    /\ nPrec' = 0
    /\ nSpmv' = 0
    /\ IF failAt = 0
       THEN /\ ops' = << Op("fill", <<>>, "d_p"), Op("fill", <<>>, "d_v"),
                         Op("copy", <<"d_b">>, "d_r"), Op("copy", <<"d_r">>, "d_rw"),
                         Op("copy", <<"d_r">>, "d_p"), Op("norm", <<"d_r">>, "d_tmp") >>
            /\ norm0zero' = (d_b = Data(ZeroVec))
            /\ it2' = 1
            \* lines 258-260
            /\ rho' = One /\ alpha' = One /\ omega' = One
            /\ UNCHANGED <<rhop, beta>>
            /\ pc' = "for_cond"
            /\ status' = status
       ELSE /\ ops' = <<>>
            /\ UNCHANGED <<norm0zero, it2, scalVars>>
            /\ Return(ST_LOGIC_ERROR)
    /\ UNCHANGED <<wmVars, thrVars, ctorVars, extVars, hostVars, d_x, d_b, d_Avals, d_Apattern, d_toOrder,
                   callInfo, res>>

LoopPcs == {"for_cond", "pass", "custom", "prec1", "spmv1", "well1", "update1", "test1",
            "prec2", "spmv2", "well2", "update2", "test2"}

\* line 283: the loop test
ForCond ==
    /\ pc = "for_cond"
    /\ IF LoopCondition(it2, maxit)
       THEN /\ passNo < PassCap
            /\ pc' = "pass"
       ELSE pc' = "report"
    /\ UNCHANGED <<wmVars, thrVars, ctorVars, extVars, hostVars, devVars, callInfo, stages, status, loopVars, res>>

\* lines 284-285: rhop = rho; rho = dot(rw, r)
DotRho ==
    /\ pc = "pass"
    /\ passNo' = passNo + 1
    /\ rhop' = rho
    /\ rho' = ComputedIn(passNo + 1)
    /\ ops' = << Op("dot", <<"d_rw", "d_r">>, "d_tmp") >>
    /\ pc' = IF NotFirstPass(it2) THEN "custom" ELSE "prec1"
    /\ UNCHANGED <<wmVars, thrVars, ctorVars, extVars, hostVars, devVars, callInfo, stages, status,
                   it2, norm0zero, nPrec, nSpmv, hit, beta, alpha, omega, res>>

\* faulty variant of Custom: the recombination is written over the shadow
\* residual instead of p
CustomWritingRw ==
    /\ pc = "custom"
    /\ ops' = Append(ops, Op("custom", <<"d_p", "d_v", "d_r">>, "d_rw"))
    /\ beta' = ComputedIn(passNo)
    /\ d_rw' = Computed
    /\ pc' = "prec1"
    /\ UNCHANGED <<wmVars, thrVars, ctorVars, extVars, hostVars, d_x, d_b, d_r, d_p, d_v, d_Avals, d_Apattern,
                   d_toOrder, callInfo, stages, status,
                   it2, norm0zero, passNo, nPrec, nSpmv, hit, rho, rhop, alpha, omega, res>>

\* lines 287-290: beta, p = r + beta * (p - omega * v)
Custom ==
    /\ pc = "custom"
    /\ ops' = Append(ops, Op("custom", <<"d_p", "d_v", "d_r">>, "d_p"))
    /\ beta' = ComputedIn(passNo)
    /\ d_p' = Computed
    /\ pc' = "prec1"
    /\ UNCHANGED <<wmVars, thrVars, ctorVars, extVars, hostVars, d_x, d_b, d_r, d_rw, d_v, d_Avals, d_Apattern,
                   d_toOrder, callInfo, stages, status,
                   it2, norm0zero, passNo, nPrec, nSpmv, hit, rho, rhop, alpha, omega, res>>

\* prec->apply(src, dst), lines 295 and 326
PrecApply(at, src, dst, next) ==
    /\ pc = at
    /\ ops' = Append(ops, Op("prec_apply", <<src>>, dst))
    /\ nPrec' = nPrec + 1
    /\ pc' = next
    /\ UNCHANGED <<wmVars, thrVars, ctorVars, extVars, hostVars, devVars, callInfo, stages, status,
                   it2, norm0zero, passNo, nSpmv, hit, scalVars, res>>

\* faulty variant of AfterSpmv: the well contributions are never applied
AfterSpmvSkippingWells(well, update) == update

\* the pc after an spmv: the well contributions are applied only if there are
\* wells (lines 305, 336)
AfterSpmv(well, update) == IF arg.numWells > 0 THEN well ELSE update

\* OpenclKernels::spmv(d_Avals, d_Acols, d_Arows, src, dst, ...), lines 300 and 331
Spmv(at, src, dst, well, update) ==
    /\ pc = at
    /\ ops' = Append(ops, Op("spmv", <<"d_Avals", "d_Acols", "d_Arows", src>>, dst))
    /\ nSpmv' = nSpmv + 1
    /\ d_v' = IF dst = "d_v" THEN Computed ELSE d_v
    /\ pc' = AfterSpmv(well, update)
    /\ UNCHANGED <<wmVars, thrVars, ctorVars, extVars, hostVars, d_x, d_b, d_r, d_rw, d_p, d_Avals, d_Apattern,
                   d_toOrder, callInfo, stages, status,
                   it2, norm0zero, passNo, nPrec, hit, scalVars, res>>

\* the well contributions' use of their reordering setting <<permutation, enabled>>:
\* the cell that block i of the solver's vectors stands for, and whether a
\* permutation is read at all
WellCellIndex(setting, i) == IF setting[2] THEN setting[1][i] ELSE i
WellReadsPermutation(setting) == setting[2]

\* WellContributionsOCL::apply(src, dst, d_toOrder), lines 306 and 337
WellApply(at, src, dst, next) ==
    /\ pc = at
    /\ ops' = Append(ops, Op("well_apply", <<src, "d_toOrder">>, dst))
    /\ d_v' = IF dst = "d_v" THEN Computed ELSE d_v
    /\ pc' = next
    /\ UNCHANGED <<wmVars, thrVars, ctorVars, extVars, hostVars, d_x, d_b, d_r, d_rw, d_p, d_Avals, d_Apattern,
                   d_toOrder, callInfo, stages, status,
                   it2, norm0zero, passNo, nPrec, nSpmv, hit, scalVars, res>>

Prec1 == PrecApply("prec1", "d_p", "d_pw", "spmv1")
Spmv1 == Spmv("spmv1", "d_pw", "d_v", "well1", "update1")
Well1 == WellApply("well1", "d_pw", "d_v", "update1")

\* lines 311-315: alpha, r -= alpha * v, x += alpha * pw, norm.  xnew: the vector
\* the axpy leaves in d_x.
Update1(xnew) ==
    /\ pc = "update1"
    /\ ops' = ops \o << Op("dot", <<"d_rw", "d_v">>, "d_tmp"), Op("axpy", <<"d_v">>, "d_r"),
                        Op("axpy", <<"d_pw">>, "d_x"), Op("norm", <<"d_r">>, "d_tmp") >>
    /\ alpha' = ComputedIn(passNo)
    /\ d_r' = Computed
    /\ d_x' = Data(xnew)
    /\ pc' = "test1"
    /\ UNCHANGED <<wmVars, thrVars, ctorVars, extVars, hostVars, d_b, d_rw, d_p, d_v, d_Avals, d_Apattern, d_toOrder,
                   callInfo, stages, status,
                   it2, norm0zero, passNo, nPrec, nSpmv, hit, rho, rhop, beta, omega, res>>

\* `norm < tolerance * norm_0` (lines 318, 350).  below: what the floating-point
\* comparison gives when norm_0 is not zero.  With norm_0 == 0 the right-hand side
\* is 0 or NaN and no norm is smaller.
ToleranceTest(below) == IF norm0zero THEN FALSE ELSE below

\* lines 318-322: break, or it += 0.5
Test1(below) ==
    /\ pc = "test1"
    /\ IF ToleranceTest(below)
       THEN /\ hit' = TRUE
            /\ pc' = "report"
            /\ it2' = it2
       ELSE /\ hit' = hit
            /\ it2' = FloatAddHalf(it2)
            /\ pc' = "prec2"
    /\ UNCHANGED <<wmVars, thrVars, ctorVars, extVars, hostVars, devVars, callInfo, stages, status,
                   norm0zero, ops, passNo, nPrec, nSpmv, scalVars, res>>

\* faulty variant of Prec2: the preconditioner is applied to p again instead of r
Prec2FromP == PrecApply("prec2", "d_p", "d_s", "spmv2")

Prec2 == PrecApply("prec2", "d_r", "d_s", "spmv2")
Spmv2 == Spmv("spmv2", "d_s", "d_t", "well2", "update2")
Well2 == WellApply("well2", "d_s", "d_t", "update2")

\* lines 342-347: omega, x += omega * s, r -= omega * t, norm
Update2(xnew) ==
    /\ pc = "update2"
    /\ ops' = ops \o << Op("dot", <<"d_t", "d_r">>, "d_tmp"), Op("dot", <<"d_t", "d_t">>, "d_tmp"),
                        Op("axpy", <<"d_s">>, "d_x"), Op("axpy", <<"d_t">>, "d_r"),
                        Op("norm", <<"d_r">>, "d_tmp") >>
    /\ omega' = ComputedIn(passNo)
    /\ d_r' = Computed
    /\ d_x' = Data(xnew)
    /\ pc' = "test2"
    /\ UNCHANGED <<wmVars, thrVars, ctorVars, extVars, hostVars, d_b, d_rw, d_p, d_v, d_Avals, d_Apattern, d_toOrder,
                   callInfo, stages, status,
                   it2, norm0zero, passNo, nPrec, nSpmv, hit, rho, rhop, beta, alpha, res>>

\* lines 350-352 and the loop's increment (line 283): break, or it += 0.5
Test2(below) ==
    /\ pc = "test2"
    /\ IF ToleranceTest(below)
       THEN /\ hit' = TRUE
            /\ pc' = "report"
            /\ it2' = it2
       ELSE /\ hit' = hit
            /\ it2' = FloatAddHalf(it2)
            /\ pc' = "for_cond"
    /\ UNCHANGED <<wmVars, thrVars, ctorVars, extVars, hostVars, devVars, callInfo, stages, status,
                   norm0zero, ops, passNo, nPrec, nSpmv, scalVars, res>>

\* a kernel launch or read-back inside the loop raises cl::Error; lines 600-605
\* rethrow it as std::logic_error
KernelError ==
    /\ pc \in LoopPcs \ {"for_cond", "test1", "test2"}
    /\ Return(ST_LOGIC_ERROR)
    /\ UNCHANGED <<wmVars, thrVars, ctorVars, extVars, hostVars, devVars, callInfo, stages, loopVars, res>>

\* lines 361-365, then the return at line 663
Report ==
    /\ pc = "report"
    /\ res' = [iterations2 |-> ResIterations2(it2, maxit),
               converged |-> ResConverged(it2, maxit),
               set |-> TRUE]
    /\ Return(ST_SUCCESS)
    /\ UNCHANGED <<wmVars, thrVars, ctorVars, extVars, hostVars, devVars, callInfo, stages, loopVars>>

\* faulty variant of GetResult: the device solution is permuted by fromOrder
GetResultByFromOrder(readFails) ==
    /\ ctorStatus = "ok"
    /\ pc = "idle"
    /\ status = ST_SUCCESS
    /\ IF readFails
       THEN /\ status' = ST_CL_ERROR
            /\ UNCHANGED <<rb, x>>
       ELSE /\ status' = status
            /\ IF Reordering
               THEN /\ rb' = d_x
                    /\ x' = IF d_x.kind = "data"
                            THEN Data(ReorderBlockedVectorByPattern(d_x.v, fromOrder))
                            ELSE d_x
               ELSE /\ rb' = rb
                    /\ x' = d_x
    /\ UNCHANGED <<wmVars, thrVars, ctorVars, Nb, nnz, nnzb, matPattern, nAnalyze, initThrew,
                   initialized, analysis_done, analysisOk, N, matVals, rmatVals,
                   toOrder, fromOrder, wellReorder, precVals,
                   devVars, pc, stages, callInfo, loopVars, res>>

\* lines 622-638, called for the result of a successful solve.  readFails:
\* enqueueReadBuffer raises cl::Error, which leaves get_result.  With reordering
\* d_x is read into rb and permuted by toOrder into x.
GetResult(readFails) ==
    /\ ctorStatus = "ok"
    /\ pc = "idle"
    /\ status = ST_SUCCESS
    /\ IF readFails
       THEN /\ status' = ST_CL_ERROR
            /\ UNCHANGED <<rb, x>>
       ELSE /\ status' = status
            /\ IF Reordering
               THEN /\ rb' = d_x
                    /\ x' = IF d_x.kind = "data"
                            THEN Data(ReorderBlockedVectorByPattern(d_x.v, toOrder))
                            ELSE d_x
               ELSE /\ rb' = rb
                    /\ x' = d_x
    /\ UNCHANGED <<wmVars, thrVars, ctorVars, Nb, nnz, nnzb, matPattern, nAnalyze, initThrew,
                   initialized, analysis_done, analysisOk, N, matVals, rmatVals,
                   toOrder, fromOrder, wellReorder, precVals,
                   devVars, pc, stages, callInfo, loopVars, res>>

----------------------------------------------------------------------------
\* the context / queue a caller hands to setOpencl
HandedSet == {"handed"}

\* lines 229-233
SetOpencl(context_, queue_) ==
    /\ ctorStatus = "ok"
    /\ pc = "idle"
    /\ context' = context_
    /\ queue' = queue_
    /\ UNCHANGED <<ctorStatus, ctorLog, linsolver, precType, maxit, opencl_ilu_reorder,
                   devices, platformID, deviceID, numPlatforms, numDevices, block_size,
                   wmVars, thrVars, extVars, hostVars, devVars, callVars, loopVars, res>>

NextCtor ==
    \E ls \in LinsolverSet, mi \in MaxitSet, ro \in ReorderSet, np \in PlatformCounts,
       pid \in PlatformIDs, nd \in DeviceCounts, did \in DeviceIDs, cf \in ClFailSet :
         Construct(ls, mi, ro, np, pid, nd, did, cf)

Next ==
    \/ \E vals \in 1..MaxValsId, b \in RhsSet, nw \in 0..1 :
          Call(vals, b, nw, VecLen, VecLen, 1)
    \/ \E allocFails \in BOOLEAN : Initialize(allocFails)
    \/ \E success \in BOOLEAN, perm \in PermSet : AnalyzeMatrix(success, perm)
    \/ UpdateSystem
    \/ \E result \in BOOLEAN : CreatePreconditioner(result)
    \/ \E failAt \in 0..6 : CopySystemToGpu(failAt)
    \/ \E failAt \in 0..3 : UpdateSystemOnGpu(failAt)
    \/ \E failAt \in 0..5 : BicgInit(failAt)
    \/ ForCond
    \/ DotRho
    \/ Custom
    \/ Prec1
    \/ Spmv1
    \/ Well1
    \/ \E xnew \in XSet : Update1(xnew)
    \/ \E below \in BOOLEAN : Test1(below)
    \/ Prec2
    \/ Spmv2
    \/ Well2
    \/ \E xnew \in XSet : Update2(xnew)
    \/ \E below \in BOOLEAN : Test2(below)
    \/ KernelError
    \/ Report
    \/ \E readFails \in BOOLEAN : GetResult(readFails)

Spec == Init /\ [][Next]_vars

\* the constructor alone
SpecCtor == InitCtor /\ [][NextCtor]_vars

----------------------------------------------------------------------------
\* The public operations on an instance constructed on any of the devices found:
\* solve_system, get_result and setOpencl (between calls).

InitLifetime ==
    /\ \E nd \in DeviceCounts, did \in DeviceIDs : ConstructedOn(2, "NONE", 1, nd, did)
    /\ InitMembers

NextLifetime ==
    \/ Next
    \/ \E c \in HandedSet : SetOpencl(c, c)

SpecLifetime == InitLifetime /\ [][NextLifetime]_vars

----------------------------------------------------------------------------
\* initialize over the sizes a caller may pass, for each block_size.

DimSet == 0..MaxDimN
BlockSizes == 1..MaxBlockSize

InitDims ==
    /\ \E ro \in ReorderSet, bs \in BlockSizes : Constructed(1, ro, bs)
    /\ InitMembers

NextDims ==
    \/ \E N_ \in DimSet, nnz_ \in DimSet, dim \in BlockSizes :
          Call(1, ZeroVec, 0, N_, nnz_, dim)
    \/ \E allocFails \in BOOLEAN : Initialize(allocFails)

SpecDims == InitDims /\ [][NextDims]_vars

----------------------------------------------------------------------------
\* The loop late in a long solve.  With maxit at or above 2^23 and a tolerance
\* test that never holds, the first call reaches the loop test with
\* it = 2^23 - 1.5 and it = 2^23 - 0.5 after 2^23 - 2 and 2^23 - 1 full passes.
\* InitLate is those states; NextLate follows gpu_pbicgstab from there.

\* the device operations of one full pass other than the first (lines 284-347)
FullPassOps(nw) ==
    << Op("dot", <<"d_rw", "d_r">>, "d_tmp"),
       Op("custom", <<"d_p", "d_v", "d_r">>, "d_p"),
       Op("prec_apply", <<"d_p">>, "d_pw"),
       Op("spmv", <<"d_Avals", "d_Acols", "d_Arows", "d_pw">>, "d_v") >>
    \o (IF nw > 0 THEN << Op("well_apply", <<"d_pw", "d_toOrder">>, "d_v") >> ELSE <<>>)
    \o << Op("dot", <<"d_rw", "d_v">>, "d_tmp"), Op("axpy", <<"d_v">>, "d_r"),
          Op("axpy", <<"d_pw">>, "d_x"), Op("norm", <<"d_r">>, "d_tmp"),
          Op("prec_apply", <<"d_r">>, "d_s"),
          Op("spmv", <<"d_Avals", "d_Acols", "d_Arows", "d_s">>, "d_t") >>
    \o (IF nw > 0 THEN << Op("well_apply", <<"d_s", "d_toOrder">>, "d_t") >> ELSE <<>>)
    \o << Op("dot", <<"d_t", "d_r">>, "d_tmp"), Op("dot", <<"d_t", "d_t">>, "d_tmp"),
          Op("axpy", <<"d_s">>, "d_x"), Op("axpy", <<"d_t">>, "d_r"),
          Op("norm", <<"d_r">>, "d_tmp") >>

InitLate ==
    \E mi \in {FloatStick2 \div 2, (FloatStick2 \div 2) + 1}, done \in 1..2,
       vals \in 1..MaxValsId, b \in RhsSet, nw \in 0..1, xdev \in XSet :
        LET passes == (FloatStick2 \div 2) - done
        IN  /\ Constructed(mi, "NONE", 1)
            /\ Nb = VecLen /\ nnz = VecLen /\ nnzb = VecLen /\ matPattern = 1
            /\ nAnalyze = 1 /\ initThrew = FALSE /\ x = Undef
            /\ initialized = TRUE /\ analysis_done = TRUE /\ analysisOk = TRUE
            /\ N = VecLen /\ matVals = vals /\ rmatVals = NoVals /\ rb = Data(b)
            /\ toOrder = NoPerm /\ fromOrder = NoPerm /\ wellReorder = <<NoPerm, FALSE>>
            /\ precVals = vals
            /\ d_x = Data(xdev) /\ d_b = Data(b) /\ d_r = Computed /\ d_rw = Data(b)
            /\ d_p = Computed /\ d_v = Computed /\ d_Avals = vals
            /\ d_Apattern = "pattern" /\ d_toOrder = NoPerm
            /\ pc = "for_cond" /\ callNo = 1
            /\ arg = Arg(vals, b, nw, VecLen, VecLen, 1)
            /\ stages = <<"initialize", "analyze_matrix", "update_system",
                          "create_preconditioner", "copy_system_to_gpu", "gpu_pbicgstab">>
            /\ status = "running"
            /\ branch = "first" /\ analyzeResult = "true" /\ precResult = "true"
            /\ it2 = 2 * passes + 1 /\ norm0zero = (b = ZeroVec) /\ ops = FullPassOps(nw)
            /\ passNo = passes /\ nPrec = 2 * passes /\ nSpmv = 2 * passes /\ hit = FALSE
            /\ rho = ComputedIn(passes) /\ rhop = ComputedIn(passes - 1)
            /\ beta = ComputedIn(passes) /\ alpha = ComputedIn(passes)
            /\ omega = ComputedIn(passes)
            /\ res = NoRes
            /\ tid = 1 /\ other = IdleThread /\ preempted = FALSE
            /\ NoWellsManager

NextLate ==
    \/ ForCond
    \/ DotRho
    \/ Custom
    \/ Prec1
    \/ Spmv1
    \/ Well1
    \/ \E xnew \in XSet : Update1(xnew)
    \/ \E below \in BOOLEAN : Test1(below)
    \/ Prec2
    \/ Spmv2
    \/ Well2
    \/ \E xnew \in XSet : Update2(xnew)
    \/ \E below \in BOOLEAN : Test2(below)
    \/ KernelError
    \/ Report

SpecLate == InitLate /\ [][NextLate]_vars

----------------------------------------------------------------------------
\* The stages of solve_system alone: with maxit = 0 the loop of gpu_pbicgstab
\* is left at its first test, so a call consists of its stages, the set-up of
\* gpu_pbicgstab and the report.  A call that initializes is given the sizes of
\* the system; a call on the initialized instance is given any sizes.

\* N_ and nnz_ of a call on the initialized instance
LaterSizes == {VecLen, MaxDimN}

InitStages ==
    /\ \E ro \in ReorderSet : Constructed(0, ro, 1)
    /\ InitMembers

NextStages ==
    \/ /\ ~initialized
       /\ \E vals \in 1..MaxValsId, b \in RhsSet : Call(vals, b, 0, VecLen, VecLen, 1)
    \/ /\ initialized
       /\ \E vals \in 1..MaxValsId, b \in RhsSet, size \in LaterSizes,
             dim \in {1, MaxBlockSize} : Call(vals, b, 0, size, size, dim)
    \/ \E allocFails \in BOOLEAN : Initialize(allocFails)
    \/ \E success \in BOOLEAN, perm \in PermSet : AnalyzeMatrix(success, perm)
    \/ UpdateSystem
    \/ \E result \in BOOLEAN : CreatePreconditioner(result)
    \/ \E failAt \in 0..6 : CopySystemToGpu(failAt)
    \/ \E failAt \in 0..3 : UpdateSystemOnGpu(failAt)
    \/ \E failAt \in 0..5 : BicgInit(failAt)
    \/ ForCond
    \/ Report
    \/ \E readFails \in BOOLEAN : GetResult(readFails)

SpecStages == InitStages /\ [][NextStages]_vars

----------------------------------------------------------------------------
\* Two host threads calling solve_system on one instance.  The class takes no
\* lock: the members, the device buffers and the queue are shared, while the
\* arguments, the locals of gpu_pbicgstab and the caller's res belong to each
\* call.  The variables pc .. res describe the thread that is running; Switch
\* hands the processor to the other thread between two steps.

Switch ==
    /\ ctorStatus = "ok"
    /\ tid' = 3 - tid
    /\ preempted' = (preempted \/ pc # "idle")
    /\ other' = [pc |-> pc, callNo |-> callNo, arg |-> arg, stages |-> stages,
                 status |-> status, branch |-> branch, analyzeResult |-> analyzeResult,
                 precResult |-> precResult, it2 |-> it2, norm0zero |-> norm0zero,
                 ops |-> ops, passNo |-> passNo, nPrec |-> nPrec, nSpmv |-> nSpmv,
                 hit |-> hit, rho |-> rho, rhop |-> rhop, beta |-> beta,
                 alpha |-> alpha, omega |-> omega, res |-> res]
    /\ pc' = other.pc /\ callNo' = other.callNo /\ arg' = other.arg
    /\ stages' = other.stages /\ status' = other.status /\ branch' = other.branch
    /\ analyzeResult' = other.analyzeResult /\ precResult' = other.precResult
    /\ it2' = other.it2 /\ norm0zero' = other.norm0zero /\ ops' = other.ops
    /\ passNo' = other.passNo /\ nPrec' = other.nPrec /\ nSpmv' = other.nSpmv
    /\ hit' = other.hit /\ rho' = other.rho /\ rhop' = other.rhop /\ beta' = other.beta
    /\ alpha' = other.alpha /\ omega' = other.omega /\ res' = other.res
    /\ UNCHANGED <<wmVars, ctorVars, extVars, hostVars, devVars>>

\* the device operations of the first pass of a solve without wells
FirstPassOps ==
    << Op("dot", <<"d_rw", "d_r">>, "d_tmp"),
       Op("prec_apply", <<"d_p">>, "d_pw"),
       Op("spmv", <<"d_Avals", "d_Acols", "d_Arows", "d_pw">>, "d_v"),
       Op("dot", <<"d_rw", "d_v">>, "d_tmp"), Op("axpy", <<"d_v">>, "d_r"),
       Op("axpy", <<"d_pw">>, "d_x"), Op("norm", <<"d_r">>, "d_tmp"),
       Op("prec_apply", <<"d_r">>, "d_s"),
       Op("spmv", <<"d_Avals", "d_Acols", "d_Arows", "d_s">>, "d_t"),
       Op("dot", <<"d_t", "d_r">>, "d_tmp"), Op("dot", <<"d_t", "d_t">>, "d_tmp"),
       Op("axpy", <<"d_s">>, "d_x"), Op("axpy", <<"d_t">>, "d_r"),
       Op("norm", <<"d_r">>, "d_tmp") >>

\* the instance after thread 1 has made the first call alone (maxit 1, no
\* reordering, one full pass without convergence); thread 2 has made no call.
\* Each thread is left one call to make.
InitReentrant ==
    LET b == [i \in 1..VecLen |-> IF i = VecLen THEN 1 ELSE 0]
    IN  /\ Constructed(1, "NONE", 1)
        /\ Nb = VecLen /\ nnz = VecLen /\ nnzb = VecLen /\ matPattern = 1
        /\ nAnalyze = 1 /\ initThrew = FALSE /\ x = Undef
        /\ initialized = TRUE /\ analysis_done = TRUE /\ analysisOk = TRUE
        /\ N = VecLen /\ matVals = 1 /\ rmatVals = NoVals /\ rb = Data(b)
        /\ toOrder = NoPerm /\ fromOrder = NoPerm /\ wellReorder = <<NoPerm, FALSE>>
        /\ precVals = 1
        /\ d_x = Data(ZeroVec) /\ d_b = Data(b) /\ d_r = Computed /\ d_rw = Data(b)
        /\ d_p = Data(b) /\ d_v = Computed /\ d_Avals = 1
        /\ d_Apattern = "pattern" /\ d_toOrder = NoPerm
        /\ pc = "idle" /\ callNo = MaxCalls - 1
        /\ arg = Arg(1, b, 0, VecLen, VecLen, 1)
        /\ stages = <<"initialize", "analyze_matrix", "update_system",
                      "create_preconditioner", "copy_system_to_gpu", "gpu_pbicgstab">>
        /\ status = ST_SUCCESS
        /\ branch = "first" /\ analyzeResult = "true" /\ precResult = "true"
        /\ it2 = 3 /\ norm0zero = FALSE /\ ops = FirstPassOps
        /\ passNo = 1 /\ nPrec = 2 /\ nSpmv = 2 /\ hit = FALSE
        /\ rho = ComputedIn(1) /\ rhop = One /\ beta = Uninit
        /\ alpha = ComputedIn(1) /\ omega = ComputedIn(1)
        /\ res = [iterations2 |-> 2, converged |-> FALSE, set |-> TRUE]
        /\ tid = 1 /\ other = [IdleThread EXCEPT !.callNo = MaxCalls - 1]
        /\ preempted = FALSE
        /\ NoWellsManager

NextReentrant ==
    \/ \E vals \in 1..MaxValsId, b \in RhsSet : Call(vals, b, 0, VecLen, VecLen, 1)
    \/ UpdateSystem
    \/ CreatePreconditioner(TRUE)
    \/ UpdateSystemOnGpu(0)
    \/ BicgInit(0)
    \/ ForCond
    \/ DotRho
    \/ Prec1
    \/ Spmv1
    \/ \E xnew \in XSet : Update1(xnew)
    \/ \E below \in BOOLEAN : Test1(below)
    \/ Prec2
    \/ Spmv2
    \/ \E xnew \in XSet : Update2(xnew)
    \/ \E below \in BOOLEAN : Test2(below)
    \/ Report
    \/ Switch

SpecReentrant == InitReentrant /\ [][NextReentrant]_vars

----------------------------------------------------------------------------
\* WellsManager, src/opm/core/WellsManager.cpp: the constructor from a deck
\* (lines 184-614), one action per deck record or per well of each loop, and
\* applyControl (lines 644-754).  Names are sequences of characters.  Rates and
\* limits are integers.  The deck, the grid and the well collection are inputs.

\* wells the constructor is given in WELSPECS
MaxWells == 2
\* records of COMPDAT, WCONINJE, WCONPROD and WELTARG in a deck, taken together
MaxRecords == 1

\* a field of `WellData wd;` (line 222) that was never assigned: the struct has
\* no constructor, the value is indeterminate
Indet == "indeterminate"
Known(v) == [def |-> TRUE, v |-> v]
IndetVal == [def |-> FALSE, v |-> 0]
\* double negation and product, on values that may be indeterminate
Neg(t) == IF t.def THEN Known(0 - t.v) ELSE t
\* what the test `a == b` gives for an enum field a: either answer when a is
\* indeterminate
ReadsAs(a, b, garbage) == IF a = Indet THEN garbage = b ELSE a = b
\* the values an indeterminate WellType / WellControlType may be read as
TypeReads == {"INJECTOR", "PRODUCER", "neither"}
ControlReads == {"BHP", "RATE", "neither"}

\* std::string::npos: size_type(-1), as a length larger than every string
Npos == 0 - 1
\* name.find('*'), 0-based (lines 250, 323, 382, 445)
Find(name, ch) ==
    IF \E i \in 1..Len(name) : name[i] = ch
    THEN (CHOOSE i \in 1..Len(name) : name[i] = ch /\ \A j \in 1..(i - 1) : name[j] # ch) - 1
    ELSE Npos
\* name.substr(0, len)
Substr0(name, len) ==
    IF len = Npos \/ len > Len(name) THEN name ELSE SubSeq(name, 1, len)
\* the part of a record's well_ that is compared: the name, or what comes
\* before the '*' (lines 249-253)
RecordName(well_) ==
    IF Find(well_, "*") # Npos THEN Substr0(well_, Find(well_, "*")) ELSE well_
\* well_names[wix].compare(0, len, name) == 0 with len = well_.find('*'): the
\* first min(len, size) characters of the well's name equal name (lines 257,
\* 329, 389, 451)
WellNameMatches(wellName, well_) ==
    Substr0(wellName, Find(well_, "*")) = RecordName(well_)

\* the wells a record's name matches, in well order
MatchingWells(names, well_) == {wix \in 1..Len(names) : WellNameMatches(names[wix], well_)}
MinOf(S) == CHOOSE m \in S : \A n \in S : m <= n

\* faulty variant of FirstMatchOnly: the loop over the wells does not stop at the
\* first match
AllMatches(names, well_) == MatchingWells(names, well_)

\* the wells a COMPDAT or WELTARG record is applied to: the loop over the wells
\* breaks at the first match (lines 290, 454)
FirstMatchOnly(names, well_) ==
    IF MatchingWells(names, well_) = {} THEN {} ELSE {MinOf(MatchingWells(names, well_))}

\* the constructor throws: its locals are destroyed and the instance never exists
WmThrow ==
    /\ wm_pc' = "threw"
    /\ kw' = 0
    /\ well_names' = <<>> /\ well_data' = <<>> /\ wellperf_data' = <<>>
    /\ well_collection_' = [leaves |-> <<>>, group |-> NoGroup]
    /\ w_' = NullWells

\* lines 187-203: the grid must be 3-dimensional; without WELSPECS and COMPDAT no
\* wells are made; without WCONINJE and WCONPROD the constructor throws
WellsManagerCtor(dimensions, hasWellKeywords, hasWcon) ==
    /\ wm_pc = "none"
    /\ wm_pc' = IF dimensions # 3 THEN "threw"
                ELSE IF ~hasWellKeywords THEN "done"
                ELSE IF ~hasWcon THEN "threw"
                ELSE "welspecs"
    /\ UNCHANGED <<solverVars, well_names, well_data, wellperf_data, kw, nrec, rec,
                   well_collection_, w_, applied>>

\* lines 220-232, one WELSPECS line: the name, an unassigned WellData, the datum
\* depth or the marker for a defaulted one
Welspecs(name_, datumNegative) ==
    /\ wm_pc = "welspecs"
    /\ Len(well_names) < MaxWells
    /\ rec' = [kw |-> "WELSPECS", name_ |-> name_, datumNegative |-> datumNegative]
    /\ well_names' = Append(well_names, name_)
    /\ well_data' = Append(well_data,
                           [type |-> Indet, control |-> Indet, target |-> IndetVal,
                            reference_bhp_depth |-> IF datumNegative THEN "marker" ELSE "datum",
                            injected_phase |-> Indet])
    /\ wellperf_data' = Append(wellperf_data, <<>>)
    /\ UNCHANGED <<solverVars, wm_pc, kw, nrec, well_collection_, w_, applied>>

\* the end of a keyword's loop: on to the next block
NextBlock(from, to) ==
    /\ wm_pc = from
    /\ wm_pc' = to
    /\ kw' = 0
    /\ rec' = NoRec
    /\ UNCHANGED <<solverVars, well_names, well_data, wellperf_data, nrec,
                   well_collection_, w_, applied>>

WelspecsEnd == NextBlock("welspecs", "compdat")

\* the cell of a Cartesian index that is not in the grid (line 267)
NoCell == 0
\* PerfData of one cell (lines 272-286): well_index is the record's
\* connection factor if that is positive, the computed one otherwise
Perf(cell, r) ==
    [cell |-> cell,
     well_index |-> IF r.connect_trans_fac_ > 0 THEN "connect_trans_fac_" ELSE "computeWellIndex"]
\* the perforations pushed for the cells kz1..kz2 before the first cell that is
\* not found (lines 263-288)
RECURSIVE Perfs(_, _)
Perfs(cells, r) ==
    IF cells = <<>> \/ Head(cells) = NoCell THEN <<>>
    ELSE <<Perf(Head(cells), r)>> \o Perfs(Tail(cells), r)

\* lines 246-297, one COMPDAT record.  r.cells: what the lookup of each of the
\* cells kz1..kz2 finds.
Compdat(r) ==
    /\ wm_pc = "compdat"
    /\ rec' = r
    /\ nrec' = nrec + 1
    /\ IF FirstMatchOnly(well_names, r.well_) = {}
          \/ \E k \in 1..Len(r.cells) : r.cells[k] = NoCell
       THEN WmThrow
       ELSE /\ kw' = kw + 1
            /\ wellperf_data' = [wix \in 1..Len(wellperf_data) |->
                                    IF wix \in FirstMatchOnly(well_names, r.well_)
                                    THEN wellperf_data[wix] \o Perfs(r.cells, r)
                                    ELSE wellperf_data[wix]]
            /\ UNCHANGED <<wm_pc, well_names, well_data, well_collection_, w_>>
    /\ UNCHANGED <<solverVars, applied>>

\* lines 299-313: a defaulted reference depth becomes the smallest depth of the
\* well's perforations (1e100 if it has none)
ReferenceDepths ==
    /\ wm_pc = "compdat"
    /\ wm_pc' = "wconinje"
    /\ kw' = 0
    /\ rec' = NoRec
    /\ well_data' = [w \in 1..Len(well_data) |->
                        IF well_data[w].reference_bhp_depth = "marker"
                        THEN [well_data[w] EXCEPT !.reference_bhp_depth =
                                 IF wellperf_data[w] = <<>> THEN "1e100" ELSE "min_depth"]
                        ELSE well_data[w]]
    /\ UNCHANGED <<solverVars, well_names, wellperf_data, nrec, well_collection_, w_, applied>>

\* inje_control_mode (lines 75-94) and prod_control_mode (lines 53-72): the index
\* of the mode, or -1 when the function throws
InjeModes == <<"RATE", "RESV", "BHP", "THP", "GRUP">>
ProdModes == <<"ORAT", "WRAT", "GRAT", "LRAT", "RESV", "BHP", "THP", "GRUP">>
ModeIndex(modes, control) ==
    IF \E i \in 1..Len(modes) : modes[i] = control
    THEN (CHOOSE i \in 1..Len(modes) : modes[i] = control) - 1
    ELSE 0 - 1
inje_control_mode(control) == ModeIndex(InjeModes, control)
prod_control_mode(control) == ModeIndex(ProdModes, control)

InjectorTypes == {"WATER", "OIL", "GAS"}

\* lines 331-356: what a WCONINJE record makes of a matching well's data up to
\* the injector type
InjeControl(wd, r) ==
    LET m == inje_control_mode(r.control_mode_)
        t == [wd EXCEPT !.type = "INJECTOR"]
    IN  IF m = 0 THEN [t EXCEPT !.control = "RATE", !.target = Known(r.surface_flow_max_rate_)]
        ELSE IF m = 1 THEN [t EXCEPT !.control = "RATE", !.target = Known(r.fluid_volume_max_rate_)]
        ELSE IF m = 2 THEN [t EXCEPT !.control = "BHP", !.target = Known(r.BHP_limit_)]
        ELSE IF m = 3 THEN [t EXCEPT !.control = "BHP", !.target = Known(r.THP_limit_)]
        ELSE t
\* lines 357-365
InjePhase(wd, r) ==
    IF r.injector_type_ \in InjectorTypes THEN [wd EXCEPT !.injected_phase = r.injector_type_]
    ELSE wd

\* lines 391-429: what a WCONPROD record makes of a matching well's data
ProdControl(wd, r) ==
    LET m == prod_control_mode(r.control_mode_)
        t == [wd EXCEPT !.type = "PRODUCER"]
    IN  IF m = 0 THEN [t EXCEPT !.control = "RATE", !.target = Known(r.oil_max_rate_)]
        ELSE IF m = 1 THEN [t EXCEPT !.control = "RATE", !.target = Known(r.water_max_rate_)]
        ELSE IF m = 2 THEN [t EXCEPT !.control = "RATE", !.target = Known(r.gas_max_rate_)]
        ELSE IF m = 3 THEN [t EXCEPT !.control = "RATE", !.target = Known(r.liquid_max_rate_)]
        ELSE IF m = 4 THEN [t EXCEPT !.control = "RATE", !.target = Known(r.fluid_volume_max_rate_)]
        ELSE IF m = 5 THEN [t EXCEPT !.control = "BHP", !.target = Known(r.BHP_limit_)]
        ELSE IF m = 6 THEN [t EXCEPT !.control = "BHP", !.target = Known(r.THP_limit_)]
        ELSE t

\* lines 319-372, one WCONINJE record: every matching well is made an injector.
\* An unknown mode or injector type throws at the first matching well.
Wconinje(r) ==
    LET M == MatchingWells(well_names, r.well_)
        modeOk == inje_control_mode(r.control_mode_) >= 0
        typeOk == r.injector_type_ \in InjectorTypes
    IN  /\ wm_pc = "wconinje"
        /\ rec' = r
        /\ nrec' = nrec + 1
        /\ IF M = {} \/ ~modeOk \/ ~typeOk
           THEN WmThrow
           ELSE /\ kw' = kw + 1
                /\ well_data' = [wix \in 1..Len(well_data) |->
                                    IF wix \in M
                                    THEN InjePhase(InjeControl(well_data[wix], r), r)
                                    ELSE well_data[wix]]
                /\ UNCHANGED <<wm_pc, well_names, wellperf_data, well_collection_, w_>>
        /\ UNCHANGED <<solverVars, applied>>

WconinjeEnd == NextBlock("wconinje", "wconprod")

\* lines 380-436, one WCONPROD record: every matching well is made a producer
Wconprod(r) ==
    LET M == MatchingWells(well_names, r.well_)
        modeOk == prod_control_mode(r.control_mode_) >= 0
    IN  /\ wm_pc = "wconprod"
        /\ rec' = r
        /\ nrec' = nrec + 1
        /\ IF M = {} \/ ~modeOk
           THEN WmThrow
           ELSE /\ kw' = kw + 1
                /\ well_data' = [wix \in 1..Len(well_data) |->
                                    IF wix \in M THEN ProdControl(well_data[wix], r)
                                    ELSE well_data[wix]]
                /\ UNCHANGED <<wm_pc, well_names, wellperf_data, well_collection_, w_>>
        /\ UNCHANGED <<solverVars, applied>>

WconprodEnd == NextBlock("wconprod", "weltarg")

\* lines 443-461, one WELTARG record: the first matching well gets the new target
Weltarg(r) ==
    /\ wm_pc = "weltarg"
    /\ rec' = r
    /\ nrec' = nrec + 1
    /\ IF FirstMatchOnly(well_names, r.well_) = {}
       THEN WmThrow
       ELSE /\ kw' = kw + 1
            /\ well_data' = [wix \in 1..Len(well_data) |->
                                IF wix \in FirstMatchOnly(well_names, r.well_)
                                THEN [well_data[wix] EXCEPT !.target = Known(r.new_value_)]
                                ELSE well_data[wix]]
            /\ UNCHANGED <<wm_pc, well_names, wellperf_data, well_collection_, w_>>
    /\ UNCHANGED <<solverVars, applied>>

WeltargEnd == NextBlock("weltarg", "collection")

\* the records of a deck
CompdatRec(well_, cells, ctf) ==
    [kw |-> "COMPDAT", well_ |-> well_, cells |-> cells, connect_trans_fac_ |-> ctf]
WconinjeRec(well_, mode, type) ==
    [kw |-> "WCONINJE", well_ |-> well_, control_mode_ |-> mode, injector_type_ |-> type,
     surface_flow_max_rate_ |-> 1, fluid_volume_max_rate_ |-> 2, BHP_limit_ |-> 3,
     THP_limit_ |-> 4]
WconprodRec(well_, mode) ==
    [kw |-> "WCONPROD", well_ |-> well_, control_mode_ |-> mode,
     oil_max_rate_ |-> 1, water_max_rate_ |-> 2, gas_max_rate_ |-> 3, liquid_max_rate_ |-> 4,
     fluid_volume_max_rate_ |-> 5, BHP_limit_ |-> 6, THP_limit_ |-> 7]
WeltargRec(well_, value) == [kw |-> "WELTARG", well_ |-> well_, new_value_ |-> value]

----------------------------------------------------------------------------
\* The keywords of the deck, over well names of which one is a prefix of another
\* and over record names with and without '*'.

DeckNames == {<<"A">>, <<"A", "B">>, <<"B">>}
DeckPatterns == {<<"A">>, <<"A", "B">>, <<"A", "*">>, <<"*">>, <<"C">>}
DeckCells == {<<>>, <<1>>, <<1, NoCell>>}
\* a known mode and a known injector type, group control, an unknown mode, an
\* unknown type
DeckInjectors == {<<"RATE", "WATER">>, <<"GRUP", "GAS">>, <<"XXXX", "WATER">>, <<"BHP", "XXXX">>}
DeckProducers == {"ORAT", "BHP", "GRUP", "XXXX"}

\* a solver backend constructed and idle, no WellsManager yet
InitWells ==
    /\ Constructed(1, "NONE", 1)
    /\ InitMembers

NextDeck ==
    \/ \E dimensions \in {2, 3}, hasWellKeywords \in BOOLEAN, hasWcon \in BOOLEAN :
          WellsManagerCtor(dimensions, hasWellKeywords, hasWcon)
    \/ \E name_ \in DeckNames, datumNegative \in BOOLEAN : Welspecs(name_, datumNegative)
    \/ WelspecsEnd
    \/ /\ nrec < MaxRecords
       /\ \E well_ \in DeckPatterns, cells \in DeckCells, ctf \in {0, 1} :
             Compdat(CompdatRec(well_, cells, ctf))
    \/ ReferenceDepths
    \/ /\ nrec < MaxRecords
       /\ \E well_ \in DeckPatterns, inj \in DeckInjectors :
             Wconinje(WconinjeRec(well_, inj[1], inj[2]))
    \/ WconinjeEnd
    \/ /\ nrec < MaxRecords
       /\ \E well_ \in DeckPatterns, mode \in DeckProducers :
             Wconprod(WconprodRec(well_, mode))
    \/ WconprodEnd
    \/ /\ nrec < MaxRecords
       /\ \E well_ \in DeckPatterns, value \in {8} : Weltarg(WeltargRec(well_, value))
    \/ WeltargEnd

SpecDeck == InitWells /\ [][NextDeck]_vars

----------------------------------------------------------------------------
\* The well collection (lines 484-516).  The nodes are made by
\* WellCollection::addChild from the deck; what each node's specification holds
\* is an input here.  All wells are children of one group.

GroupName == <<"G">>
Leaf(name, mode, grt, injMode) ==
    [name |-> name, control_mode_ |-> mode, guide_rate_type_ |-> grt, guide_rate_ |-> 2,
     inj_control_mode_ |-> injMode]
Group(procedure, mode) ==
    [name |-> GroupName, procedure_ |-> procedure, control_mode_ |-> mode,
     oil_max_rate_ |-> 3, liquid_max_rate_ |-> 5, surface_flow_max_rate_ |-> 7]

\* lines 484-516: one leaf node per WELSPECS line, in that order (line 510
\* asserts the names agree), under the group
BuildCollection(leaves, group) ==
    /\ wm_pc = "collection"
    /\ Len(leaves) = Len(well_names)
    /\ \A i \in 1..Len(leaves) : leaves[i].name = well_names[i]
    /\ well_collection_' = [leaves |-> leaves, group |-> group]
    /\ wm_pc' = "guide"
    /\ kw' = 0
    /\ UNCHANGED <<solverVars, well_names, well_data, wellperf_data, nrec, rec, w_, applied>>

\* lines 520-554 for one well.  A producer under group control: with guide-rate
\* type OIL it gets the group's oil rate share (and the switch is left, line
\* 531); with NONE_GRT and a parent under LRAT it gets the liquid rate share, the
\* inner switch is left (line 543) and, the case block ending without break (line
\* 548), control runs into the default label and its THROW (line 550); every
\* other case throws.
GuideProducer(wd, leaf, group, isProducer) ==
    IF ~(isProducer /\ leaf.control_mode_ = "GRUP") THEN [wd |-> wd, threw |-> FALSE]
    ELSE IF leaf.guide_rate_type_ = "OIL"
    THEN [wd |-> [wd EXCEPT !.target = Known(leaf.guide_rate_ * group.oil_max_rate_),
                            !.control = "RATE", !.type = "PRODUCER"],
          threw |-> FALSE]
    ELSE IF leaf.guide_rate_type_ = "NONE_GRT" /\ group.control_mode_ = "LRAT"
    THEN [wd |-> [wd EXCEPT !.target = Known(leaf.guide_rate_ * group.liquid_max_rate_),
                            !.control = "RATE"],
          threw |-> TRUE]
    ELSE [wd |-> wd, threw |-> TRUE]

\* lines 556-566 for one well: an injector under group control with guide-rate
\* type RAT
GuideInjector(wd, leaf, group, isInjector) ==
    IF isInjector /\ leaf.inj_control_mode_ = "GRUP" /\ leaf.guide_rate_type_ = "RAT"
    THEN [wd EXCEPT !.injected_phase = "WATER", !.control = "RATE", !.type = "INJECTOR",
                    !.target = Known(leaf.guide_rate_ * group.surface_flow_max_rate_)]
    ELSE wd

\* lines 519-567, one well.  typeRead: what an indeterminate type is read as.
GuideRates(typeRead) ==
    LET i == kw + 1
        leaf == well_collection_.leaves[i]
        group == well_collection_.group
        p == GuideProducer(well_data[i], leaf, group,
                           ReadsAs(well_data[i].type, "PRODUCER", typeRead))
    IN  /\ wm_pc = "guide"
        /\ kw < Len(well_data)
        /\ IF p.threw
           THEN WmThrow
           ELSE /\ kw' = kw + 1
                /\ well_data' = [well_data EXCEPT ![i] =
                                    GuideInjector(p.wd, leaf, group,
                                                  ReadsAs(p.wd.type, "INJECTOR", typeRead))]
                /\ UNCHANGED <<wm_pc, well_names, wellperf_data, well_collection_, w_>>
        /\ UNCHANGED <<solverVars, nrec, rec, applied>>

\* lines 572-575: create_wells
CreateWells(ok) ==
    /\ wm_pc = "guide"
    /\ kw = Len(well_data)
    /\ IF ok THEN /\ w_' = [null |-> FALSE, wells |-> <<>>]
                  /\ wm_pc' = "build"
                  /\ kw' = 0
                  /\ UNCHANGED <<well_names, well_data, wellperf_data, well_collection_>>
             ELSE WmThrow
    /\ UNCHANGED <<solverVars, nrec, rec, applied>>

\* faulty variant of ControlTarget: the target is appended as it is
ControlTargetWithoutSign(wd, isProducerRate) == wd.target

\* lines 601-604: the target of the control that is appended
ControlTarget(wd, isProducerRate) == IF isProducerRate THEN Neg(wd.target) ELSE wd.target

\* what the indeterminate fields of a WellData are read as: a type, a control
\* and an injected phase (one out of range is replaced by WATER, line 590)
Garbage(type, control, phase) == [type |-> type, control |-> control, phase |-> phase]
GarbageReads == {Garbage("INJECTOR", "BHP", "WATER"), Garbage("INJECTOR", "RATE", "OIL"),
                 Garbage("INJECTOR", "neither", "GAS"), Garbage("PRODUCER", "RATE", "WATER"),
                 Garbage("PRODUCER", "BHP", "WATER"), Garbage("neither", "RATE", "WATER")}
\* the call of a step that fails
BuildFailures == {"none", "add_well", "append_well_controls"}

\* lines 579-610, one well: add_well, then the single control with current = 0.
\* fails: which of add_well and append_well_controls returns 0.
AddWell(fails, garbage) ==
    LET w == kw + 1
        wd == well_data[w]
        isInjector == ReadsAs(wd.type, "INJECTOR", garbage.type)
        isProducerRate == /\ ReadsAs(wd.type, "PRODUCER", garbage.type)
                          /\ ReadsAs(wd.control, "RATE", garbage.control)
        zfrac == IF ~isInjector THEN "none"
                 ELSE IF wd.injected_phase = Indet THEN garbage.phase ELSE wd.injected_phase
        target == ControlTarget(wd, isProducerRate)
    IN  /\ wm_pc = "build"
        /\ kw < Len(well_data)
        /\ IF fails = "none"
           THEN /\ kw' = kw + 1
                /\ well_data' = [well_data EXCEPT ![w].target = target]
                /\ w_' = [w_ EXCEPT !.wells =
                             Append(@, [type |-> wd.type,
                                        depth_ref |-> wd.reference_bhp_depth,
                                        nperf |-> Len(wellperf_data[w]),
                                        zfrac |-> zfrac,
                                        ctrls |-> [type |-> <<wd.control>>,
                                                   target |-> <<target>>,
                                                   current |-> 0]])]
                /\ UNCHANGED <<wm_pc, well_names, wellperf_data, well_collection_>>
           ELSE WmThrow
        /\ UNCHANGED <<solverVars, nrec, rec, applied>>

\* lines 612-614: the collection is given the Wells struct; the constructor's
\* locals are destroyed and the instance exists
FinishWells ==
    /\ wm_pc = "build"
    /\ kw = Len(well_data)
    /\ wm_pc' = "done"
    /\ kw' = 0
    /\ well_names' = <<>> /\ well_data' = <<>> /\ wellperf_data' = <<>>
    /\ UNCHANGED <<solverVars, nrec, rec, well_collection_, w_, applied>>

----------------------------------------------------------------------------
\* applyControl.  An ExceedInformation is <<group_name_, well_index_, surplus_>>
\* as a record; an exceed_info map is a function from names to sequences of them.

Exceed(group_name_, well_index_, surplus_) ==
    [group_name_ |-> group_name_, well_index_ |-> well_index_, surplus_ |-> surplus_]

\* the entries of a list whose keys (keys[i] for entry i) equal g, in order
RECURSIVE EntriesUnder(_, _, _)
EntriesUnder(entries, keys, g) ==
    IF entries = <<>> THEN <<>>
    ELSE (IF Head(keys) = g THEN <<Head(entries)>> ELSE <<>>)
         \o EntriesUnder(Tail(entries), Tail(keys), g)
\* map[keys[i]].push_back(entries[i]) for every i (lines 648-650, 657-659, 665-667)
GroupedUnder(entries, keys) ==
    [g \in {keys[i] : i \in 1..Len(entries)} |-> EntriesUnder(entries, keys, g)]

\* result.oil_rate_[i].group_name_ for the entries of another list (lines 658,
\* 666).  Past the end of oil_rate_ the read is out of bounds: wild is the name
\* it yields.
OilKeys(result, entries, wild) ==
    [i \in 1..Len(entries) |->
        IF i <= Len(result.oil_rate_) THEN result.oil_rate_[i].group_name_ ELSE wild]
OwnKeys(entries) == [i \in 1..Len(entries) |-> entries[i].group_name_]

\* lines 728-735: the well_index_ of the last entry whose surplus is at least
\* the largest seen so far, starting from 0.0; -1 if there is none
RECURSIVE ExceedIndex(_, _, _)
ExceedIndex(entries, max_exceed, exceed_index) ==
    IF entries = <<>> THEN exceed_index
    ELSE IF max_exceed <= Head(entries).surplus_
         THEN ExceedIndex(Tail(entries), Head(entries).surplus_, Head(entries).well_index_)
         ELSE ExceedIndex(Tail(entries), max_exceed, exceed_index)

NoWrite == 0 - 2
\* findNode (line 717): a leaf node, the group, or no node
IsLeafName(coll, g) == \E i \in 1..Len(coll.leaves) : coll.leaves[i].name = g
IsGroupName(coll, g) == g = coll.group.name

\* lines 715-752 for one group name: the index of the well whose target[0] is
\* set to 0 (NoWrite: none)
ShutIndex(coll, g, entries) ==
    IF IsLeafName(coll, g) THEN entries[1].well_index_
    ELSE IF IsGroupName(coll, g) /\ coll.group.procedure_ = "WELL"
         THEN ExceedIndex(entries, 0, 0 - 1)
    ELSE NoWrite

\* w_->ctrls[index]->target[0] = 0.0
Shut(w, index) ==
    IF index + 1 \in 1..Len(w.wells)
    THEN [w EXCEPT !.wells[index + 1].ctrls.target[1] = Known(0)]
    ELSE w

\* std::map iterates over its keys in increasing order (line 712): characters by
\* their codes, a proper prefix before its extensions
CharOrder == <<"*", "?", "A", "B", "C", "G">>
CharRank(c) == CHOOSE k \in 1..Len(CharOrder) : CharOrder[k] = c
RECURSIVE NameLess(_, _)
NameLess(a, b) ==
    IF b = <<>> THEN FALSE
    ELSE IF a = <<>> THEN TRUE
    ELSE IF Head(a) # Head(b) THEN CharRank(Head(a)) < CharRank(Head(b))
    ELSE NameLess(Tail(a), Tail(b))
FirstName(names) == CHOOSE n \in names : \A m \in names \ {n} : NameLess(n, m)

\* applyControl(exceed_info, mode), lines 707-754, on st = [w, coll, out].  A name
\* without node is a null pointer at line 718; an index outside the wells is a
\* write outside w_->ctrls at line 721 or 737: stray says whether the process
\* survives it.
RECURSIVE ApplyNames(_, _, _, _, _)
ApplyNames(names, exceed_info, mode, st, stray) ==
    IF names = {} \/ st.out # "returned" THEN st
    ELSE LET g == FirstName(names)
             index == ShutIndex(st.coll, g, exceed_info[g])
             known == IsLeafName(st.coll, g) \/ IsGroupName(st.coll, g)
             inside == index = NoWrite \/ index + 1 \in 1..Len(st.w.wells)
             rate == /\ ~IsLeafName(st.coll, g) /\ IsGroupName(st.coll, g)
                     /\ st.coll.group.procedure_ = "RATE"
         IN  ApplyNames(names \ {g}, exceed_info, mode,
                        [w |-> IF known THEN Shut(st.w, index) ELSE st.w,
                         coll |-> IF rate THEN [st.coll EXCEPT !.group.control_mode_ = mode]
                                  ELSE st.coll,
                         out |-> IF ~known \/ (~inside /\ stray = "crash") THEN "crashed"
                                 ELSE "returned"],
                        stray)
ApplyControlMode(exceed_info, mode, st, stray) ==
    ApplyNames(DOMAIN exceed_info, exceed_info, mode, st, stray)

\* the record of one applyControl(exceed_info, mode) call
Applied(exceed_info, mode, coll) ==
    [exceed_info |-> exceed_info, mode |-> mode,
     shut |-> [g \in DOMAIN exceed_info |-> IF IsLeafName(coll, g) \/ IsGroupName(coll, g)
                                            THEN ShutIndex(coll, g, exceed_info[g])
                                            ELSE NoWrite]]

\* lines 673-699 for the wells from i on: a well whose node is under group
\* control, with guide-rate type OIL (which runs into the next case) or NONE_GRT,
\* gets the liquid rate share of a parent under LRAT; another parent mode throws
RECURSIVE ApplyGuideRates(_, _)
ApplyGuideRates(i, st) ==
    IF i > Len(st.w.wells) \/ st.out # "returned" THEN st
    ELSE LET leaf == st.coll.leaves[i]
             group == st.coll.group
         IN  IF leaf.control_mode_ = "GRUP" /\ leaf.guide_rate_type_ \in {"OIL", "NONE_GRT"}
             THEN IF group.control_mode_ = "LRAT"
                  THEN ApplyGuideRates(i + 1,
                          [st EXCEPT !.w.wells[i].ctrls.target[1] =
                                        Known(leaf.guide_rate_ * group.liquid_max_rate_),
                                     !.w.wells[i].ctrls.type[1] = "RATE"])
                  ELSE [st EXCEPT !.out = "threw"]
             ELSE ApplyGuideRates(i + 1, st)

\* the process does not survive (an out-of-bounds read, a null pointer)
Crashing(st, cond) == IF cond /\ st.out = "returned" THEN [st EXCEPT !.out = "crashed"] ELSE st

\* applyControl(result), lines 644-700.  wild: what an out-of-bounds read of
\* oil_rate_ yields, a name or the end of the process.  On a manager without
\* wells w_ is null and line 673 reads through it.
ApplyControl(result, wild, stray) ==
    LET oil_exceed == GroupedUnder(result.oil_rate_, OwnKeys(result.oil_rate_))
        fluid_exceed == GroupedUnder(result.fluid_rate_,
                                     OilKeys(result, result.fluid_rate_, wild.name))
        \* bhp_exceed is filled (line 666) and not used
        fluidPast == Len(result.fluid_rate_) > Len(result.oil_rate_)
        bhpPast == Len(result.bhp_) > Len(result.oil_rate_)
        s0 == [w |-> w_, coll |-> well_collection_, out |-> "returned"]
        s1 == Crashing(ApplyControlMode(oil_exceed, "ORAT", s0, stray), fluidPast /\ wild.crash)
        s2 == Crashing(ApplyControlMode(fluid_exceed, "LRAT", s1, stray), bhpPast /\ wild.crash)
        s3 == ApplyControlMode(fluid_exceed, "BHP", s2, stray)
        s4 == ApplyGuideRates(1, s3)
        calls == << Applied(oil_exceed, "ORAT", s0.coll) >>
                 \o (IF s1.out = "returned"
                     THEN << Applied(fluid_exceed, "LRAT", s1.coll) >> ELSE <<>>)
                 \o (IF s2.out = "returned"
                     THEN << Applied(fluid_exceed, "BHP", s2.coll) >> ELSE <<>>)
    IN  /\ wm_pc = "done"
        /\ applied.outcome # "crashed"
        /\ rec' = result
        /\ IF w_.null
           THEN /\ applied' = [calls |-> <<>>, pastEnd |-> FALSE, outcome |-> "crashed"]
                /\ UNCHANGED <<w_, well_collection_>>
           ELSE /\ w_' = s4.w
                /\ well_collection_' = s4.coll
                /\ applied' = [calls |-> calls,
                               pastEnd |-> (fluidPast \/ (bhpPast /\ s2.out = "returned")),
                               outcome |-> s4.out]
        /\ UNCHANGED <<solverVars, wm_pc, well_names, well_data, wellperf_data, kw, nrec>>

----------------------------------------------------------------------------
\* The construction of a WellsManager as a whole: up to MaxWells wells, at most
\* MaxRecords records for them, every combination of node specifications.

WellName(k) == IF k = 1 THEN <<"A">> ELSE IF k = 2 THEN <<"A", "B">> ELSE <<"B">>
\* a node's production control mode, guide-rate type and injection control mode
LeafSpecs == {<<"NONE_CM", "NONE_GRT", "NONE_CM">>, <<"GRUP", "OIL", "NONE_CM">>,
              <<"GRUP", "NONE_GRT", "NONE_CM">>, <<"GRUP", "RAT", "GRUP">>}
\* the group's procedure and production control mode
GroupSpecs == {<<"WELL", "LRAT">>, <<"WELL", "ORAT">>, <<"RATE", "LRAT">>, <<"NONE_P", "ORAT">>}
Leaves(spec) ==
    [i \in 1..Len(well_names) |-> Leaf(well_names[i], spec[i][1], spec[i][2], spec[i][3])]

NextWells ==
    \/ \E hasWellKeywords \in BOOLEAN : WellsManagerCtor(3, hasWellKeywords, TRUE)
    \/ Welspecs(WellName(Len(well_names) + 1), FALSE)
    \/ WelspecsEnd
    \/ /\ nrec < MaxRecords
       /\ Compdat(CompdatRec(<<"*">>, <<1>>, 1))
    \/ ReferenceDepths
    \/ /\ nrec < MaxRecords
       /\ Wconinje(WconinjeRec(<<"A">>, "RATE", "WATER"))
    \/ WconinjeEnd
    \/ /\ nrec < MaxRecords
       /\ \E well_ \in {<<"*">>, <<"A", "B">>}, mode \in {"ORAT", "BHP", "GRUP"} :
             Wconprod(WconprodRec(well_, mode))
    \/ WconprodEnd
    \/ /\ nrec < MaxRecords
       /\ Weltarg(WeltargRec(<<"*">>, 8))
    \/ WeltargEnd
    \/ \E spec \in [1..Len(well_names) -> LeafSpecs], mode \in {"LRAT", "ORAT"} :
          BuildCollection(Leaves(spec), Group("WELL", mode))
    \/ \E typeRead \in TypeReads : GuideRates(typeRead)
    \/ \E ok \in BOOLEAN : CreateWells(ok)
    \/ \E fails \in BuildFailures, garbage \in GarbageReads : AddWell(fails, garbage)
    \/ FinishWells

SpecWells == InitWells /\ [][NextWells]_vars

----------------------------------------------------------------------------
\* applyControl on a constructed WellsManager: the wells of a deck whose only
\* record makes every well a producer, any group, and conditionsMet results
\* with entries in any of the three lists.

\* what a read past the end of a vector yields: the end of the process, the
\* group's name, a string that names no node
WildReads == {[crash |-> TRUE, name |-> <<>>], [crash |-> FALSE, name |-> GroupName],
              [crash |-> FALSE, name |-> <<"?">>]}
StrayWrites == {"crash", "elsewhere"}
NoExceed == [oil_rate_ |-> <<>>, fluid_rate_ |-> <<>>, bhp_ |-> <<>>]
\* results of conditionsMet for n wells: well indices 0 and n - 1, the group's
\* name and the first well's; without wells no limit is exceeded
ControlResults(n) ==
    LET G == GroupName
        A == WellName(1)
        last == n - 1
    IN  IF n = 0 THEN {NoExceed} ELSE
        { NoExceed,
          [NoExceed EXCEPT !.oil_rate_ = << Exceed(G, 0, 1), Exceed(G, last, 2) >>],
          [NoExceed EXCEPT !.oil_rate_ = << Exceed(G, last, 2), Exceed(G, 0, 1) >>],
          [NoExceed EXCEPT !.oil_rate_ = << Exceed(G, last, 0 - 1), Exceed(G, 0, 0 - 2) >>],
          [NoExceed EXCEPT !.oil_rate_ = << Exceed(A, 0, 1) >>,
                           !.fluid_rate_ = << Exceed(G, last, 1) >>],
          [NoExceed EXCEPT !.fluid_rate_ = << Exceed(G, last, 1) >>],
          [NoExceed EXCEPT !.oil_rate_ = << Exceed(G, 0, 1) >>,
                           !.bhp_ = << Exceed(A, 0, 1), Exceed(G, last, 1) >>] }

NextControl ==
    \/ \E hasWellKeywords \in BOOLEAN : WellsManagerCtor(3, hasWellKeywords, TRUE)
    \/ Welspecs(WellName(Len(well_names) + 1), FALSE)
    \/ WelspecsEnd
    \/ ReferenceDepths
    \/ WconinjeEnd
    \/ /\ nrec < MaxRecords
       /\ Wconprod(WconprodRec(<<"*">>, "ORAT"))
    \/ WconprodEnd
    \/ WeltargEnd
    \/ \E spec \in [1..Len(well_names) -> {<<"NONE_CM", "NONE_GRT", "NONE_CM">>,
                                           <<"GRUP", "OIL", "NONE_CM">>}],
          g \in GroupSpecs :
          BuildCollection(Leaves(spec), Group(g[1], g[2]))
    \/ GuideRates("PRODUCER")
    \/ CreateWells(TRUE)
    \/ AddWell("none", Garbage("PRODUCER", "RATE", "WATER"))
    \/ FinishWells
    \/ \E result \in ControlResults(Len(w_.wells)), wild \in WildReads, stray \in StrayWrites :
          ApplyControl(result, wild, stray)

SpecControl == InitWells /\ [][NextControl]_vars

----------------------------------------------------------------------------
\* Properties.

Range(f) == {f[i] : i \in DOMAIN f}
IsPrefix(a, b) == /\ Len(a) <= Len(b)
                  /\ \A i \in 1..Len(a) : a[i] = b[i]

\* the stages of a call that finds the instance not initialized / initialized
OrderFirst == <<"initialize", "analyze_matrix", "update_system", "create_preconditioner",
                "copy_system_to_gpu", "gpu_pbicgstab">>
OrderLater == <<"update_system", "create_preconditioner", "update_system_on_gpu",
                "gpu_pbicgstab">>

\* C1, as stated: the stages of every call are a prefix of the fixed order, with
\* initialize, analyze_matrix and copy_system_to_gpu on the first call and
\* update_system_on_gpu on later calls, and gpu_pbicgstab only after a
\* create_preconditioner that returned true in the same call.
C1_StageOrderByCallNumber ==
    /\ IsPrefix(stages, IF callNo <= 1 THEN OrderFirst ELSE OrderLater)
    /\ ("gpu_pbicgstab" \in Range(stages) => precResult = "true")

\* C1, amended: the same order, but the initialize/analyze/copy_system_to_gpu
\* variant is run by every call that finds the instance not initialized (the first
\* call, and a call after an initialize that threw), and the update_system_on_gpu
\* variant by every call that finds it initialized.
C1_StageOrder ==
    /\ IsPrefix(stages, IF branch = "first" THEN OrderFirst ELSE OrderLater)
    /\ ("gpu_pbicgstab" \in Range(stages) => precResult = "true")
    /\ (branch = "later" => initialized)
    /\ (branch = "first" /\ pc = "initialize" => ~initialized)

\* C1 witness: a second call that ran all six stages of the initializing variant
C1_Witness ==
    /\ callNo = 2
    /\ status = ST_SUCCESS
    /\ stages = OrderFirst

\* C2: the preconditioner is built (and the system solved) only on an instance whose
\* analyze_matrix has returned success.
C2_BuildOnlyAfterSuccessfulAnalysis ==
    ("create_preconditioner" \in Range(stages) \/ "gpu_pbicgstab" \in Range(stages))
        => analysisOk

\* C3: when gpu_pbicgstab returns, res.converged is true if and only if the
\* tolerance test held at some half-step of that solve.
C3_ConvergedIffToleranceMet ==
    status = ST_SUCCESS => (res.converged <=> hit)

\* C4: for maxit >= 0 the loop never starts more than maxit passes, and a solve in
\* which the tolerance test never held has run exactly maxit passes (2 * maxit
\* preconditioner applications, 2 * maxit spmv calls) and reports
\* res.iterations = maxit, res.converged = false.
C4_ExhaustsMaxit ==
    maxit >= 0 =>
        /\ passNo <= maxit
        /\ (status = ST_SUCCESS /\ ~hit =>
                /\ passNo = maxit
                /\ nPrec = 2 * maxit
                /\ nSpmv = 2 * maxit
                /\ res.iterations2 = 2 * maxit
                /\ res.converged = FALSE)

\* the well apply that belongs to the spmv o: same input vector, same output vector
WellApplyOf(o) == Op("well_apply", <<o.src[Len(o.src)], "d_toOrder">>, o.dst)

\* every spmv of the pass is directly followed by its well apply, and every well
\* apply directly follows its spmv
WellApplyFollowsEverySpmv ==
    \A i \in 1..Len(ops) :
        /\ (ops[i].op = "spmv" /\ i < Len(ops) => ops[i + 1] = WellApplyOf(ops[i]))
        /\ (ops[i].op = "spmv" /\ i = Len(ops) =>
                pc \in {"well1", "well2"} \/ status = ST_LOGIC_ERROR)
        /\ (ops[i].op = "well_apply" =>
                i > 1 /\ ops[i - 1].op = "spmv" /\ ops[i] = WellApplyOf(ops[i - 1]))

\* C5, as stated: in the loop the well-contribution apply is invoked immediately
\* after every spmv, on the spmv's input and output vectors, and never before it.
C5_WellApplyAfterEverySpmv == WellApplyFollowsEverySpmv

\* C5, amended: that holds in every solve whose well set is not empty
\* (getNumWells() > 0); with no wells the apply is not invoked at all and the
\* spmv is followed directly by the dot product.
C5_WellApplyAfterSpmvWhenWells ==
    /\ (arg.numWells > 0 => WellApplyFollowsEverySpmv)
    /\ (arg.numWells = 0 => \A i \in 1..Len(ops) : ops[i].op # "well_apply")

\* C5 witness: a solve with wells has applied them after the spmv of the second
\* half-step, on (s, t)
C5_Witness ==
    /\ arg.numWells > 0
    /\ pc = "update2"
    /\ ops[Len(ops)] = Op("well_apply", <<"d_s", "d_toOrder">>, "d_t")
    /\ ops[Len(ops) - 1].op = "spmv"

\* C6: a call in which analyze_matrix returns false ends with
\* BDA_SOLVER_ANALYSIS_FAILED, one in which create_preconditioner returns false with
\* BDA_SOLVER_CREATE_PRECONDITIONER_FAILED; such a call runs neither an upload nor
\* gpu_pbicgstab, and no step of it up to the return writes a device buffer or res.
C6_FailureLeavesDeviceAndResult ==
    [][ /\ (analyzeResult' = "false" /\ analyzeResult # "false"
                => status' = ST_ANALYSIS_FAILED /\ pc' = "idle")
        /\ (precResult' = "false" /\ precResult # "false"
                => status' = ST_PRECOND_FAILED /\ pc' = "idle")
        /\ (status' \in {ST_ANALYSIS_FAILED, ST_PRECOND_FAILED} =>
                Range(stages') \cap {"copy_system_to_gpu", "update_system_on_gpu",
                                     "gpu_pbicgstab"} = {})
        /\ (pc \in {"idle", "initialize", "analyze_matrix", "update_system",
                    "create_preconditioner"} => UNCHANGED <<devVars, res>>)
      ]_vars

\* C6 witness: a call after a successful solve ended with
\* BDA_SOLVER_CREATE_PRECONDITIONER_FAILED; the solution and the result of the
\* earlier solve are still there
C6_Witness ==
    /\ status = ST_PRECOND_FAILED
    /\ callNo >= 2
    /\ res.set
    /\ d_x.kind = "data" /\ d_x # Data(ZeroVec)

\* C7: when the loop is left without the tolerance test ever having held, the call
\* returns BDA_SOLVER_SUCCESS with res.converged = false and res.iterations = maxit.
C7_MaxitIsNormalResult ==
    [][ pc = "report" /\ ~hit =>
            /\ status' = ST_SUCCESS
            /\ res'.converged = FALSE
            /\ res'.iterations2 = 2 * maxit
      ]_vars

\* C8: a constructor given "cpr_trueimpes" throws having done nothing else: no
\* preconditioner created, no platform or device enumerated, no context, queue or
\* kernel initialisation.
C8_TrueImpesRejectedFirst ==
    ctorStatus # "none" /\ linsolver = "cpr_trueimpes" =>
        /\ ctorStatus = "threw"
        /\ ctorLog = <<>>
        /\ precType = "none"
        /\ devices = <<>>

\* C8 witness: the constructor ran with "cpr_trueimpes"
C8_Witness ==
    /\ ctorStatus = "threw"
    /\ linsolver = "cpr_trueimpes"

\* C9: "ilu0" creates BILU0, "cpr_quasiimpes" CPR, "isai" BISAI; any other selector
\* makes the constructor throw with no preconditioner created.
C9_SelectorMapping ==
    ctorStatus # "none" =>
        /\ (linsolver = "ilu0" => precType = "BILU0")
        /\ (linsolver = "cpr_quasiimpes" => precType = "CPR")
        /\ (linsolver = "isai" => precType = "BISAI")
        /\ (linsolver \notin {"ilu0", "cpr_quasiimpes", "isai"} =>
                ctorStatus = "threw" /\ precType = "none" /\ ctorLog = <<>>)

\* C9 witness: a successful construction with "isai"
C9_Witness ==
    /\ ctorStatus = "ok"
    /\ linsolver = "isai"
    /\ precType = "BISAI"

\* C10: when the loop of gpu_pbicgstab is entered, d_x is all zeros and the
\* residual d_r equals the right-hand side d_b uploaded by this call.
C10_ZeroGuessAtLoopEntry ==
    pc = "for_cond" /\ passNo = 0 =>
        /\ d_x = Data(ZeroVec)
        /\ d_b.kind = "data"
        /\ d_b = rb
        /\ d_r = d_b

\* C10 witness: the loop is entered in a second call, after a first solve that
\* updated the solution
C10_Witness ==
    /\ pc = "for_cond" /\ passNo = 0
    /\ callNo = 2
    /\ branch = "later"
    /\ res.set /\ res.iterations2 >= 1

\* the natural index of the block held at position i of the solver's vectors
NaturalIndex(i) == IF Reordering THEN fromOrder[i] ELSE i

\* C11: the right-hand side update_system hands to the upload holds at position i
\* the caller's block fromOrder[i] (block i without reordering); get_result returns
\* the device solution in natural order, x[fromOrder[i]] = d_x[i] (x = d_x without
\* reordering); and permuting any vector by fromOrder and then by toOrder gives
\* the vector back.
C11_ResultInNaturalOrder ==
    /\ (pc # "idle" /\ "update_system" \in Range(stages) =>
            /\ rb.kind = "data"
            /\ \A i \in 1..VecLen : rb.v[i] = arg.b[NaturalIndex(i)])
    /\ (x.kind = "data" =>
            /\ d_x.kind = "data"
            /\ \A i \in 1..VecLen : x.v[NaturalIndex(i)] = d_x.v[i])
    /\ (Reordering /\ toOrder # NoPerm =>
            \A v \in Vec :
                ReorderBlockedVectorByPattern(
                    ReorderBlockedVectorByPattern(v, fromOrder), toOrder) = v)

\* C11 witness: get_result returned a solution that the rotation moved
C11_Witness ==
    /\ Reordering
    /\ toOrder = RotationPerm
    /\ x.kind = "data"
    /\ x # d_x

\* how often stage st ran in the current call
Count(st) == Cardinality({i \in 1..Len(stages) : stages[i] = st})

\* the right-hand side of the current call as update_system lays it out
OwnRhs == IF Reordering THEN Data(ReorderBlockedVectorByPattern(arg.b, fromOrder))
          ELSE Data(arg.b)

\* C12: a call that gets past analysis (reaches update_system) invokes
\* create_preconditioner exactly once; the preconditioner is built from the values
\* passed to this call, and what the upload leaves in d_Avals and d_b for the solve
\* are the values and the right-hand side passed to this call.
C12_ValuesOfSameCall ==
    /\ Count("create_preconditioner") <= 1
    /\ ("update_system" \in Range(stages) /\ pc # "create_preconditioner"
            => Count("create_preconditioner") = 1)
    /\ ("create_preconditioner" \in Range(stages)
            => matVals = arg.vals /\ precVals = arg.vals)
    /\ ("gpu_pbicgstab" \in Range(stages) \/ pc = "gpu_pbicgstab"
            => d_Avals = arg.vals /\ d_b = OwnRhs)

\* C12 witness: a second call on the initialized instance has solved with its own
\* values and right-hand side
C12_Witness ==
    /\ callNo = 2 /\ branch = "later"
    /\ status = ST_SUCCESS
    /\ precVals = MaxValsId /\ d_Avals = MaxValsId
    /\ d_b.kind = "data" /\ d_b # Data(ZeroVec)

\* C13: as long as no initialize has thrown, analyze_matrix has been invoked at
\* most once on the instance, only in the first call, and exactly once as soon as
\* the first call is past its analysis stage.
C13_AnalyzeOnce ==
    ~initThrew =>
        /\ nAnalyze <= 1
        /\ ("analyze_matrix" \in Range(stages) => callNo = 1)
        /\ (callNo >= 1 /\ pc \notin {"initialize", "analyze_matrix"} => nAnalyze = 1)

\* C13 witness: a second call with other matrix values has solved without
\* analysing again
C13_Witness ==
    /\ ~initThrew
    /\ callNo = 2 /\ status = ST_SUCCESS
    /\ arg.vals = MaxValsId
    /\ "analyze_matrix" \notin Range(stages)
    /\ nAnalyze = 1

\* C14: a device-API failure in copy_system_to_gpu, update_system_on_gpu or the
\* set-up of gpu_pbicgstab ends the call with std::logic_error (these stages leave
\* the call only through a failing enqueue), so the loop is not entered.
C14_DeviceFailureIsLogicError ==
    [][ (pc \in {"copy_system_to_gpu", "update_system_on_gpu", "gpu_pbicgstab"}
            /\ pc' = "idle")
        => status' = ST_LOGIC_ERROR
      ]_vars

\* the platform / device selection given to the constructor names no device
InvalidSelection ==
    \/ numPlatforms = 0 \/ platformID >= numPlatforms
    \/ numDevices = 0 \/ deviceID >= numDevices

\* C15: a constructor given an invalid platform / device selection throws, and at
\* the throw it has created no context and no command queue and has not
\* initialised the kernels.
C15_InvalidSelectionTouchesNoDevice ==
    ctorStatus # "none" /\ InvalidSelection =>
        /\ ctorStatus = "threw"
        /\ context = "none" /\ queue = "none"
        /\ ~Made(ctorLog, "devices_resize")
        /\ ~Made(ctorLog, "context")
        /\ ~Made(ctorLog, "queue")
        /\ ~Made(ctorLog, "kernels_init")

\* C15 witness: deviceID 1 on a platform with one device; the constructor threw
\* after enumerating the devices
C15_Witness ==
    /\ ctorStatus = "threw"
    /\ numPlatforms = 1 /\ platformID = 0
    /\ numDevices = 1 /\ deviceID = 1
    /\ Made(ctorLog, "getDevices")

\* C16, as stated: on a constructed instance the device list is the one device
\* enumerated at index deviceID, and the context and the queue are at all times
\* the ones the constructor created on it.
C16_SelectionNeverChanges ==
    ctorStatus = "ok" =>
        /\ devices = <<deviceID>>
        /\ context = "own" /\ queue = "own"

\* C16, amended: the device list is the one device enumerated at index deviceID
\* for the instance's lifetime; the context and the queue are the ones the
\* constructor created on it until setOpencl is called, and the only steps that
\* change them are calls of setOpencl between two calls, which change nothing else.
C16_SelectionChangedOnlyBySetOpencl ==
    /\ [](ctorStatus = "ok" =>
            /\ devices = <<deviceID>>
            /\ (context = "own" <=> queue = "own")
            /\ (context # "own" => context \in HandedSet /\ queue \in HandedSet))
    /\ [][ (context' # context \/ queue' # queue) =>
                /\ pc = "idle" /\ pc' = "idle"
                /\ context' \in HandedSet /\ queue' \in HandedSet
                /\ UNCHANGED <<devices, deviceID, platformID, extVars, hostVars,
                               devVars, callVars, loopVars, res>>
          ]_vars

\* C16 witness: an instance constructed on device 1 of two has solved its last
\* call with the context and queue of the constructor
C16_Witness ==
    /\ ctorStatus = "ok"
    /\ numDevices = 2 /\ deviceID = 1 /\ devices = <<1>>
    /\ callNo = MaxCalls /\ status = ST_SUCCESS
    /\ context = "own" /\ queue = "own"

StoppedAtFirstHalf == \A i \in 1..Len(ops) : ops[i].dst # "d_s"

\* C18: res.iterations (in units of 0.5) lies between 0 and maxit; it is k - 0.5
\* when the tolerance test first held at the first half-step of pass k, k when it
\* first held at the second half-step of pass k, and maxit when it never held.
C18_HalfStepIterationCount ==
    status = ST_SUCCESS =>
        /\ 0 <= res.iterations2
        /\ res.iterations2 <= 2 * maxit
        /\ (hit /\ StoppedAtFirstHalf => res.iterations2 = 2 * passNo - 1)
        /\ (hit /\ ~StoppedAtFirstHalf => res.iterations2 = 2 * passNo)
        /\ (~hit => res.iterations2 = 2 * maxit)

\* C19: when solve_system has returned the instance holds no pointer into the
\* caller's arrays: mat points to no caller's vals, rows or cols, and rb is not
\* the caller's b (without reordering rb is b itself, line 566).
C19_NoHostPointerRetained ==
    pc = "idle" /\ status \in {ST_SUCCESS, ST_ANALYSIS_FAILED, ST_PRECOND_FAILED} =>
        /\ matVals = NoVals
        /\ matPattern = 0
        /\ (~Reordering => rb.kind # "data")

\* C20: after initialize the stored sizes are whole blocks: N = Nb * block_size
\* and nnz = nnzb * block_size^2.
C20_DimsAreWholeBlocks ==
    initialized =>
        /\ N = Nb * block_size
        /\ nnz = nnzb * block_size * block_size

\* C21: when the calls on an instance are strictly serialized (no thread is
\* descheduled inside a call), a call that is in the loop of gpu_pbicgstab, or
\* about to report, has on the device the values and the right-hand side it was
\* given, and d_x is zero when it enters the loop.  (The witness is the other
\* half: with interleaved calls a call reports on the other call's system.)
C21_SerializedCallsSolveOwnSystem ==
    ~preempted /\ pc \in LoopPcs \cup {"report"} =>
        /\ d_Avals = arg.vals
        /\ d_b = OwnRhs
        /\ (pc = "for_cond" /\ passNo = 0 => d_x = Data(ZeroVec))

\* C21 witness: after being descheduled inside its call, a thread is about to
\* report convergence while d_Avals and d_b hold the system of the other thread's
\* call, whose upload took effect during this call's loop
C21_Witness ==
    /\ preempted
    /\ pc = "report" /\ hit
    /\ other.pc # "idle"
    /\ "update_system_on_gpu" \in Range(other.stages)
    /\ d_Avals = other.arg.vals /\ d_Avals # arg.vals
    /\ d_b = Data(other.arg.b) /\ d_b # OwnRhs

\* C22: whenever gpu_pbicgstab runs, a copy_system_to_gpu has completed on the
\* instance before: d_Acols and d_Arows hold the sparsity pattern, and d_toOrder
\* the permutation when reordering is enabled.
C22_PatternUploadedBeforeSolve ==
    pc = "gpu_pbicgstab" \/ "gpu_pbicgstab" \in Range(stages) =>
        /\ d_Apattern = "pattern"
        /\ (Reordering => d_toOrder # NoPerm /\ d_toOrder = toOrder)

\* C23: when the set-up of gpu_pbicgstab is done (the wait on the five fills and
\* copies has returned) the device holds r = rw = p = b and v = 0, the operations
\* were submitted in the order fill p, fill v, copy b -> r, copy r -> rw,
\* copy r -> p, and rho = alpha = omega = 1.
C23_InitialStateAfterWait ==
    pc = "for_cond" /\ passNo = 0 =>
        /\ d_r = d_b /\ d_rw = d_b /\ d_p = d_b
        /\ d_v = Data(ZeroVec)
        /\ rho = One /\ alpha = One /\ omega = One
        /\ IsPrefix(<< Op("fill", <<>>, "d_p"), Op("fill", <<>>, "d_v"),
                       Op("copy", <<"d_b">>, "d_r"), Op("copy", <<"d_r">>, "d_rw"),
                       Op("copy", <<"d_r">>, "d_p") >>, ops)

\* C23 witness: the set-up of a second solve is done, with a right-hand side that
\* is not zero, after a first solve whose second pass left other data in r, p, v
C23_Witness ==
    /\ pc = "for_cond" /\ passNo = 0
    /\ callNo = 2 /\ branch = "later"
    /\ res.set /\ res.iterations2 >= 3
    /\ d_b.kind = "data" /\ d_b # Data(ZeroVec)
    /\ d_p = d_b /\ d_rw = d_b

\* the device operations of pass k of the loop in program order, for a solve with
\* nw wells; withWells: the well apply is taken to follow every spmv
PassOps(k, nw, withWells) ==
    << Op("dot", <<"d_rw", "d_r">>, "d_tmp") >>
    \o (IF k > 1 THEN << Op("custom", <<"d_p", "d_v", "d_r">>, "d_p") >> ELSE <<>>)
    \o << Op("prec_apply", <<"d_p">>, "d_pw"),
          Op("spmv", <<"d_Avals", "d_Acols", "d_Arows", "d_pw">>, "d_v") >>
    \o (IF withWells \/ nw > 0
        THEN << Op("well_apply", <<"d_pw", "d_toOrder">>, "d_v") >> ELSE <<>>)
    \o << Op("dot", <<"d_rw", "d_v">>, "d_tmp"), Op("axpy", <<"d_v">>, "d_r"),
          Op("axpy", <<"d_pw">>, "d_x"), Op("norm", <<"d_r">>, "d_tmp"),
          Op("prec_apply", <<"d_r">>, "d_s"),
          Op("spmv", <<"d_Avals", "d_Acols", "d_Arows", "d_s">>, "d_t") >>
    \o (IF withWells \/ nw > 0
        THEN << Op("well_apply", <<"d_s", "d_toOrder">>, "d_t") >> ELSE <<>>)
    \o << Op("dot", <<"d_t", "d_r">>, "d_tmp"), Op("dot", <<"d_t", "d_t">>, "d_tmp"),
          Op("axpy", <<"d_s">>, "d_x"), Op("axpy", <<"d_t">>, "d_r"),
          Op("norm", <<"d_r">>, "d_tmp") >>

\* the operations of the pass up to the norm of its first half-step
FirstHalfLen(k, nw, withWells) ==
    7 + (IF k > 1 THEN 1 ELSE 0) + (IF withWells \/ nw > 0 THEN 1 ELSE 0)

\* preconditioner applications among the operations of the current pass
PrecAppliesInPass == Cardinality({i \in 1..Len(ops) : ops[i].op = "prec_apply"})

\* the operations of the current pass follow the order of PassOps; the tolerance
\* tests come after the norm of each half-step; the preconditioner is applied
\* twice in a full pass and once in a pass that ends at its first half-step
PassFollowsOrder(withWells) ==
    passNo >= 1 =>
        LET order == PassOps(passNo, arg.numWells, withWells)
            half == FirstHalfLen(passNo, arg.numWells, withWells)
        IN  /\ IsPrefix(ops, order)
            /\ (pc = "test1" => Len(ops) = half)
            /\ (pc = "test2" => ops = order)
            /\ (pc \in {"for_cond", "pass"} => ops = order /\ PrecAppliesInPass = 2)
            /\ (hit /\ StoppedAtFirstHalf => Len(ops) = half /\ PrecAppliesInPass = 1)
            /\ (hit /\ ~StoppedAtFirstHalf => ops = order /\ PrecAppliesInPass = 2)

\* C24, as stated: in each pass the operations occur in the order dot(rw, r),
\* [recombine], preconditioner apply(p -> pw), spmv, well apply, dot(rw, v), update
\* of r and x, norm, tolerance test, preconditioner apply(r -> s), spmv, well
\* apply, dots, update of x and r, norm, tolerance test; the preconditioner is
\* applied twice in a full pass and once in a pass that converges at its first
\* half-step.
C24_PassOrder == PassFollowsOrder(TRUE)

\* C24, amended: the same order, in which the two well applies occur only in a
\* solve whose well set is not empty (getNumWells() > 0) and the recombination
\* in every pass but the first.
C24_PassOrderWellsOptional == PassFollowsOrder(FALSE)

\* C24 witness: the second pass of a solve with wells converged at its first
\* half-step, after the recombination, one preconditioner application, the spmv
\* and the well apply
C24_Witness ==
    /\ pc = "report" /\ hit /\ StoppedAtFirstHalf
    /\ passNo = 2
    /\ arg.numWells > 0
    /\ PrecAppliesInPass = 1
    /\ Len(ops) = 9

\* C25: the recombination p = r + beta * (p - omega * v), with beta computed from
\* rho, rhop, alpha and omega, is executed directly after dot(rw, r) in every pass
\* of the loop except the first; in the first pass p is the initial residual and
\* beta is never computed; rhop holds the rho of the pass before (1 in the first
\* pass).
C25_RecombineExceptFirstPass ==
    /\ (passNo = 0 => beta = Uninit)
    /\ (passNo >= 1 =>
            /\ rho = ComputedIn(passNo)
            /\ rhop = IF passNo = 1 THEN One ELSE ComputedIn(passNo - 1))
    /\ (passNo = 1 =>
            /\ beta = Uninit
            /\ \A i \in 1..Len(ops) : ops[i].op # "custom"
            /\ d_p = d_b)
    /\ (pc = "custom" =>
            /\ passNo > 1
            /\ ops = << Op("dot", <<"d_rw", "d_r">>, "d_tmp") >>
            /\ alpha = ComputedIn(passNo - 1) /\ omega = ComputedIn(passNo - 1))
    /\ (passNo > 1 /\ Len(ops) >= 2 =>
            /\ ops[2] = Op("custom", <<"d_p", "d_v", "d_r">>, "d_p")
            /\ beta = ComputedIn(passNo)
            /\ \A i \in 3..Len(ops) : ops[i].op # "custom")

\* C25 witness: the second pass has recombined p, with beta computed in that
\* pass and rhop the rho of the first pass
C25_Witness ==
    /\ pc = "prec1" /\ passNo = 2
    /\ ops[Len(ops)].op = "custom"
    /\ beta = ComputedIn(2)
    /\ rho = ComputedIn(2) /\ rhop = ComputedIn(1)
    /\ d_p = Computed

\* C26: update_system leaves the call where it was (it goes on to
\* create_preconditioner with no status) and changes only mat->nnzValues, which
\* becomes the caller's vals, the host right-hand side rb, which becomes b permuted
\* by fromOrder with reordering and b itself without, and the reordering setting
\* of the well contributions; initialized, analysis_done, toOrder, fromOrder, the
\* stored dimensions and every device buffer are unchanged.
C26_UpdateSystemFrame ==
    [][ pc = "update_system" =>
            /\ pc' = "create_preconditioner" /\ status' = status
            /\ matVals' = arg.vals
            /\ rb' = OwnRhs
            /\ wellReorder' = IF Reordering THEN <<toOrder, TRUE>> ELSE <<NoPerm, FALSE>>
            /\ UNCHANGED <<initialized, analysis_done, analysisOk, toOrder, fromOrder,
                           N, Nb, nnz, nnzb, matPattern, rmatVals, precVals, x,
                           devVars, res>>
      ]_vars

\* C26 witness: update_system has run again in a second call, with other values
\* and another right-hand side than the ones still on the device
C26_Witness ==
    /\ callNo = 2 /\ branch = "later"
    /\ pc = "create_preconditioner"
    /\ stages = <<"update_system">>
    /\ matVals = arg.vals /\ d_Avals # NoVals /\ d_Avals # matVals
    /\ rb = OwnRhs /\ d_b.kind = "data" /\ d_b # rb

\* C27: update_system_on_gpu writes d_Avals, d_b and (zero fill) d_x and nothing
\* else: the pattern buffers d_Acols / d_Arows and d_toOrder are unchanged; a
\* copy_system_to_gpu that completes has written the values, both pattern
\* buffers, d_b and d_x, and d_toOrder exactly when reordering is enabled.
C27_UploadFrames ==
    [][ /\ (pc = "update_system_on_gpu" =>
                /\ UNCHANGED <<d_Apattern, d_toOrder, d_r, d_rw, d_p, d_v,
                               extVars, hostVars, res>>
                /\ (pc' = "gpu_pbicgstab" =>
                        /\ d_Avals' = RmatNnzValues
                        /\ d_b' = rb
                        /\ d_x' = Data(ZeroVec)))
        /\ (pc = "copy_system_to_gpu" =>
                /\ UNCHANGED <<d_r, d_rw, d_p, d_v, extVars, hostVars, res>>
                /\ (pc' = "gpu_pbicgstab" =>
                        /\ d_Avals' = RmatNnzValues
                        /\ d_Apattern' = "pattern"
                        /\ d_b' = rb
                        /\ d_x' = Data(ZeroVec)
                        /\ d_toOrder' = IF Reordering THEN toOrder ELSE d_toOrder))
      ]_vars

\* C27 witness: on an instance with reordering, the update_system_on_gpu of a
\* second call has put other values on the device; the pattern and the
\* permutation are the ones the first call uploaded
C27_Witness ==
    /\ callNo = 2 /\ branch = "later"
    /\ pc = "gpu_pbicgstab"
    /\ Reordering
    /\ d_Apattern = "pattern"
    /\ d_toOrder = RotationPerm
    /\ d_Avals = MaxValsId
    /\ x.kind # "data"
    /\ d_x = Data(ZeroVec)

\* C28: once an initialize has completed (initialized is set), N, nnz, nnzb, Nb
\* and the matrix's pattern arrays never change and initialize, the only place
\* where buffers are allocated, never runs again; every later call takes the
\* branch that does not look at N_, nnz_, dim, rows, cols, and in it no
\* copy_system_to_gpu runs and the pattern buffers and d_toOrder are not written.
C28_DimsFixedAfterInitialize ==
    [][ initialized =>
            /\ initialized'
            /\ UNCHANGED <<N, nnz, nnzb, Nb, matPattern>>
            /\ pc' # "initialize"
            /\ (pc = "idle" /\ pc' # "idle" => branch' = "later")
            /\ (branch' = "later" =>
                    /\ pc' # "copy_system_to_gpu"
                    /\ UNCHANGED <<d_Apattern, d_toOrder>>)
      ]_vars

\* C28 witness: a second call given other sizes than the stored ones has been
\* solved on the buffers and the pattern of the first call
C28_Witness ==
    /\ callNo = 2 /\ branch = "later"
    /\ status = ST_SUCCESS
    /\ arg.N_ # N /\ arg.nnz_ # nnz /\ arg.dim # 1
    /\ N = VecLen /\ Nb = VecLen
    /\ matPattern = 1
    /\ d_Apattern = "pattern"

\* C29: at every well apply of the loop the reordering setting of the well
\* contributions is the one update_system gave them in this call: (toOrder,
\* enabled) if the reorder strategy is not NONE, (no permutation, disabled) if it
\* is; with reordering disabled the well contributions map block indices by the
\* identity and read no permutation, and d_toOrder was never written.
C29_WellReorderingAgrees ==
    pc \in {"well1", "well2"} \/ (\E i \in 1..Len(ops) : ops[i].op = "well_apply") =>
        /\ "update_system" \in Range(stages)
        /\ wellReorder = IF Reordering THEN <<toOrder, TRUE>> ELSE <<NoPerm, FALSE>>
        /\ (Reordering =>
                /\ toOrder \in Perms
                /\ WellReadsPermutation(wellReorder)
                /\ \A i \in 1..VecLen : WellCellIndex(wellReorder, i) = toOrder[i])
        /\ (~Reordering =>
                /\ ~WellReadsPermutation(wellReorder)
                /\ \A i \in 1..VecLen : WellCellIndex(wellReorder, i) = i
                /\ d_toOrder = NoPerm)

\* C29 witness: without reordering, the wells of a second call are about to be
\* applied in the second half-step with reordering disabled
C29_Witness ==
    /\ ~Reordering
    /\ callNo = 2
    /\ arg.numWells > 0
    /\ pc = "well2"
    /\ wellReorder = <<NoPerm, FALSE>>

\* C30: a solve whose right-hand side is zero (norm_0 = 0) never passes the
\* tolerance test: it runs all maxit passes and reports res.converged = false
\* and res.iterations = maxit.
C30_ZeroRhsNeverConverges ==
    status = ST_SUCCESS /\ norm0zero =>
        /\ ~hit
        /\ res.converged = FALSE
        /\ (maxit >= 0 => passNo = maxit /\ res.iterations2 = 2 * maxit)

\* C31: inside the loop of gpu_pbicgstab no step writes d_b, d_rw, the matrix
\* buffers or d_toOrder, and every operation a step submits has one of d_x, d_r,
\* d_p, d_pw, d_v, d_s, d_t, d_tmp as its target.
LoopTargets == {"d_x", "d_r", "d_p", "d_pw", "d_v", "d_s", "d_t", "d_tmp"}
\* the operations a step taken at the current pc submits (DotRho starts the log
\* of the pass afresh, every other step appends to it)
SubmittedBy(before, after) ==
    IF after = before THEN <<>>
    ELSE IF pc = "pass" THEN after
    ELSE SubSeq(after, Len(before) + 1, Len(after))
C31_LoopWriteSet ==
    [][(pc \in LoopPcs) =>
          /\ UNCHANGED <<d_b, d_rw, d_Avals, d_Apattern, d_toOrder>>
          /\ \A i \in 1..Len(SubmittedBy(ops, ops')) :
                SubmittedBy(ops, ops')[i].dst \in LoopTargets]_vars

\* a second pass has recombined p and applied the wells; d_rw still holds the
\* copy of the right-hand side made before the loop
C31_Witness ==
    /\ pc = "update2"
    /\ passNo = 2
    /\ arg.numWells > 0
    /\ \E i \in 1..Len(ops) : ops[i].op = "custom"
    /\ \E i \in 1..Len(ops) : ops[i].op = "well_apply" /\ ops[i].dst = "d_t"
    /\ d_rw = d_b
    /\ d_b # Data(ZeroVec)
    /\ d_b.kind = "data"

\* C32: a PRODUCER whose node is under group control with guide-rate type
\* NONE_GRT and whose parent group is under LRAT gets control RATE and the target
\* guide_rate * liquid_max_rate of the parent, and the constructor goes on (it
\* does not throw at this well).
C32_GroupControlledProducer ==
    [][(/\ wm_pc = "guide"
        /\ kw < Len(well_data)
        /\ well_data[kw + 1].type = "PRODUCER"
        /\ well_collection_.leaves[kw + 1].control_mode_ = "GRUP"
        /\ well_collection_.leaves[kw + 1].guide_rate_type_ = "NONE_GRT"
        /\ well_collection_.group.control_mode_ = "LRAT") =>
          /\ wm_pc' = "guide"
          /\ well_data'[kw + 1].control = "RATE"
          /\ well_data'[kw + 1].target =
                Known(well_collection_.leaves[kw + 1].guide_rate_
                      * well_collection_.group.liquid_max_rate_)]_vars

\* C33: applyControl(result) applies the oil_rate_ entries under ORAT, then the
\* fluid_rate_ entries under LRAT, then the bhp_ entries under BHP, each list
\* grouped by the group_name_ of its own entries, and reads no list past its end.
ListOfMode(result, mode) ==
    IF mode = "ORAT" THEN result.oil_rate_
    ELSE IF mode = "LRAT" THEN result.fluid_rate_
    ELSE result.bhp_
C33_ListsUnderOwnModes ==
    (wm_pc = "done" /\ applied.calls # <<>>) =>
        /\ ~applied.pastEnd
        /\ \A k \in 1..Len(applied.calls) :
              /\ applied.calls[k].mode = <<"ORAT", "LRAT", "BHP">>[k]
              /\ applied.calls[k].exceed_info =
                    GroupedUnder(ListOfMode(rec, applied.calls[k].mode),
                                 OwnKeys(ListOfMode(rec, applied.calls[k].mode)))

\* C34: applyControl(exceed_info, mode) on a group that is no leaf and has
\* procedure WELL shuts one well, and the index it writes is the well_index_ of
\* an entry of the group whose surplus is the largest, whatever the signs of the
\* surpluses.
C34_ShutsLargestSurplus ==
    (wm_pc = "done") =>
        \A k \in 1..Len(applied.calls) :
           \A g \in DOMAIN applied.calls[k].exceed_info :
              (/\ ~IsLeafName(well_collection_, g)
               /\ IsGroupName(well_collection_, g)
               /\ well_collection_.group.procedure_ = "WELL") =>
                 LET entries == applied.calls[k].exceed_info[g]
                 IN  \E i \in 1..Len(entries) :
                        /\ applied.calls[k].shut[g] = entries[i].well_index_
                        /\ \A j \in 1..Len(entries) : entries[j].surplus_ <= entries[i].surplus_

\* C35: a well that is built gets one control, of the well's control type, with
\* current = 0; its target is the negation of the target in well_data if the
\* well is a PRODUCER under RATE, and that target itself if it is not (an
\* injector, a producer under BHP).  Of a well whose type or control was never
\* assigned the target is one of the two.
C35_AppendedControl ==
    [][(wm_pc = "build" /\ kw < Len(well_data) /\ wm_pc' = "build") =>
          LET wd == well_data[kw + 1]
              ctrls == w_'.wells[kw + 1].ctrls
          IN  /\ Len(w_'.wells) = kw + 1
              /\ Len(ctrls.target) = 1
              /\ ctrls.type = <<wd.control>>
              /\ ctrls.current = 0
              /\ (wd.type = "PRODUCER" /\ wd.control = "RATE") =>
                    ctrls.target[1] = Neg(wd.target)
              /\ (wd.type = "INJECTOR" \/ wd.control = "BHP") =>
                    ctrls.target[1] = wd.target
              /\ ctrls.target[1] \in {wd.target, Neg(wd.target)}]_vars

\* two producers under RATE with oil rate limit 1 have been built: each has the
\* single control target -1
C35_Witness ==
    /\ wm_pc = "done"
    /\ Len(w_.wells) = 2
    /\ \A w \in 1..Len(w_.wells) :
          /\ w_.wells[w].type = "PRODUCER"
          /\ w_.wells[w].ctrls.type = <<"RATE">>
          /\ w_.wells[w].ctrls.target = << Known(0 - 1) >>
          /\ w_.wells[w].ctrls.current = 0

\* a record name matches a well name: the whole name, or the part before '*'
\* is a prefix of it
IsNamePrefix(a, b) == Len(a) <= Len(b) /\ \A i \in 1..Len(a) : a[i] = b[i]
HasStar(well_) == \E i \in 1..Len(well_) : well_[i] = "*"
BeforeStar(well_) ==
    SubSeq(well_, 1, (CHOOSE i \in 1..Len(well_) :
                         well_[i] = "*" /\ \A j \in 1..(i - 1) : well_[j] # "*") - 1)
NameMatchesRecord(wellName, well_) ==
    IF HasStar(well_) THEN IsNamePrefix(BeforeStar(well_), wellName) ELSE wellName = well_
\* C36: a COMPDAT or WELTARG record is applied to the first well, in WELSPECS
\* order, whose name matches the record's name (the whole name, or the prefix
\* before '*') and to no other; a WCONINJE or WCONPROD record is applied to every
\* matching well; a record of any of the four that matches no well makes the
\* constructor throw.
C36_RecordsAndWells ==
    [][(nrec' = nrec + 1) =>
          LET r == rec'
              M == {wix \in 1..Len(well_names) : NameMatchesRecord(well_names[wix], r.well_)}
          IN  /\ (M = {}) => (wm_pc' = "threw")
              /\ (M # {} /\ r.kw = "WELTARG") => (wm_pc' # "threw")
              /\ (M # {} /\ r.kw = "COMPDAT" /\ wm_pc' # "threw") =>
                    \A wix \in 1..Len(well_names) :
                       wellperf_data'[wix] = IF wix = MinOf(M)
                                             THEN wellperf_data[wix] \o Perfs(r.cells, r)
                                             ELSE wellperf_data[wix]
              /\ (M # {} /\ r.kw = "WELTARG") =>
                    \A wix \in 1..Len(well_names) :
                       well_data'[wix] = IF wix = MinOf(M)
                                         THEN [well_data[wix] EXCEPT !.target = Known(r.new_value_)]
                                         ELSE well_data[wix]
              /\ (r.kw = "WCONINJE" /\ wm_pc' # "threw") =>
                    \A wix \in 1..Len(well_names) :
                       well_data'[wix] = IF wix \in M
                                         THEN InjePhase(InjeControl(well_data[wix], r), r)
                                         ELSE well_data[wix]
              /\ (r.kw = "WCONPROD" /\ wm_pc' # "threw") =>
                    \A wix \in 1..Len(well_names) :
                       well_data'[wix] = IF wix \in M THEN ProdControl(well_data[wix], r)
                                         ELSE well_data[wix]]_vars

\* wells "A" and "AB" and a COMPDAT record for "A*": both names match, the first
\* well has the record's perforation and the second has none
C36_Witness ==
    /\ wm_pc = "compdat"
    /\ rec.kw = "COMPDAT"
    /\ rec.well_ = <<"A", "*">>
    /\ well_names = << <<"A">>, <<"A", "B">> >>
    /\ Len(wellperf_data[1]) = 1
    /\ wellperf_data[2] = <<>>
====
